---------------------------- MODULE Spec2Model ----------------------------
(***************************************************************************)
(* A model of the LALR(1) parser generator: the symbol table and grammar   *)
(* (symbol.cpp, grammar.cpp), the LR(0) automaton (lr_items.cpp), the      *)
(* parse table and its generator (parse_table.cpp) and the shift/reduce    *)
(* driver (parser.cpp).                                                    *)
(*                                                                         *)
(* Objects are modelled by value.  A Symbol is a record (name, type,       *)
(* token_type); the symbol table interns symbols, so within one grammar a  *)
(* SymbolPtr and the record it points to determine each other.  A name is  *)
(* a sequence of characters, so that appending an apostrophe and reading   *)
(* the last character are the operations the code performs.  A Production  *)
(* is a record (lhs, rhs); a ProductionPtr is the position of the          *)
(* production in the grammar's production list.  The symbol table, a       *)
(* std::set of pointers, is the sequence of its symbols in the order they  *)
(* were allocated.                                                         *)
(***************************************************************************)
EXTENDS Integers, Sequences, FiniteSets, TLC

VARIABLES
    grammar,        \* the Grammar object under construction / in use
    op,             \* the last operation performed: [name, symbol, result]
    dirty,          \* the kinds of change made to the grammar since its caches
                    \* were last cleared
    table,          \* the ParseTable object
    calls,          \* the set_action calls made on the table so far, in order
    heap,           \* how the addresses of allocated objects are ordered
    generator,      \* the LALR1Generator object
    parser,         \* the LALR1Parser object and its running parse
    parses          \* the parse invocations running at once on one parser

vars == <<grammar, op, dirty, table, calls, heap, generator, parser, parses>>

---------------------------------------------------------------------------
(* Bounds of the model.                                                    *)

MaxProds == 2
MaxRhs == 1
MaxCalls == 3
MaxState == 2
MaxTokens == 3
MaxGenerate == 2
MaxStack == 6
MaxHeight == 2
MaxLoopHeight == 4
MaxSetProds == 2
MaxSetRhs == 2
MaxItems == 2

---------------------------------------------------------------------------
(* Symbols (symbol.h, symbol.cpp).                                         *)

Terminal(name, token_type) ==
    [name |-> name, type |-> "TERMINAL", token_type |-> token_type]

Nonterminal(name) ==
    [name |-> name, type |-> "NONTERMINAL", token_type |-> "EOF_TOKEN"]

epsilon_ == [name |-> <<"eps">>, type |-> "EPSILON", token_type |-> "EOF_TOKEN"]

end_of_input_ == [name |-> <<"$">>, type |-> "END_OF_INPUT", token_type |-> "EOF_TOKEN"]

nullptr == [name |-> <<>>, type |-> "nullptr", token_type |-> "EOF_TOKEN"]

is_terminal(s) == s.type = "TERMINAL"
is_nonterminal(s) == s.type = "NONTERMINAL"
is_epsilon(s) == s.type = "EPSILON"
is_end_of_input(s) == s.type = "END_OF_INPUT"

\* SymbolTable::SymbolTable
SymbolTableInit == <<epsilon_, end_of_input_>>

Range(seq) == {seq[i] : i \in 1..Len(seq)}

\* SymbolTable::get_all_symbols, get_terminals, get_nonterminals
get_all_symbols(symbols) == Range(symbols)
get_terminals(symbols) == {s \in Range(symbols) : is_terminal(s)}
get_nonterminals(symbols) == {s \in Range(symbols) : is_nonterminal(s)}

\* SymbolTable::get_nonterminal: the nonterminal of that name already in the
\* table if there is one, a new one otherwise.  Returns the symbol and the table.
get_nonterminal(symbols, name) ==
    LET found == {s \in Range(symbols) : s.name = name /\ is_nonterminal(s)}
    IN  IF found # {}
        THEN [symbol |-> CHOOSE s \in found : TRUE, symbols |-> symbols]
        ELSE [symbol |-> Nonterminal(name), symbols |-> Append(symbols, Nonterminal(name))]

\* SymbolTable::get_terminal
get_terminal(symbols, name, token_type) ==
    LET found == {s \in Range(symbols) :
                    s.name = name /\ is_terminal(s) /\ s.token_type = token_type}
    IN  IF found # {}
        THEN [symbol |-> CHOOSE s \in found : TRUE, symbols |-> symbols]
        ELSE [symbol |-> Terminal(name, token_type),
              symbols |-> Append(symbols, Terminal(name, token_type))]

---------------------------------------------------------------------------
(* Maps with the lookups the code uses.                                    *)

EmptyMap == [x \in {} |-> x]

\* std::map / unordered_map operator[] read: the default when the key is absent
At(m, k, default) == IF k \in DOMAIN m THEN m[k] ELSE default

\* m[k] = v
Put(m, k, v) == (k :> v) @@ m

\* True of every value.  A loop tests it of what the steps so far have built,
\* so that TLC computes that value before the next step starts from it.
Evaluated(v) == v = v

---------------------------------------------------------------------------
(* Grammar (grammar.h, grammar.cpp).                                       *)

\* Grammar::Grammar
\* Production::is_epsilon_production
is_epsilon_production(production) ==
    Len(production.rhs) = 1 /\ is_epsilon(production.rhs[1])

GrammarInit ==
    [symbol_table_ |-> SymbolTableInit,
     productions_ |-> <<>>,
     start_symbol_ |-> nullptr,
     is_augmented_ |-> FALSE,
     first_sets_ |-> EmptyMap,
     follow_sets_ |-> EmptyMap,
     epsilon_derivers_ |-> EmptyMap,
     first_sets_computed_ |-> FALSE,
     follow_sets_computed_ |-> FALSE,
     epsilon_computed_ |-> FALSE]

\* Grammar::clear_cache
clear_cache(g) ==
    [g EXCEPT !.first_sets_ = EmptyMap,
              !.follow_sets_ = EmptyMap,
              !.epsilon_derivers_ = EmptyMap,
              !.first_sets_computed_ = FALSE,
              !.follow_sets_computed_ = FALSE,
              !.epsilon_computed_ = FALSE]

\* Grammar::add_production(lhs, rhs); add_production(lhs) is the case rhs = <<>>
add_production(g, lhs, rhs) ==
    clear_cache([g EXCEPT !.productions_ = Append(@, [lhs |-> lhs, rhs |-> rhs])])

\* Production::add_symbol on the production at position p: the right-hand side
\* grows, the grammar that holds the production is not told
add_symbol(g, p, symbol) ==
    [g EXCEPT !.productions_[p].rhs = Append(@, symbol)]

\* Grammar::set_start_symbol
set_start_symbol(g, start) == [g EXCEPT !.start_symbol_ = start]

\* augment as it would be if it added S' -> S after the productions already
\* there instead of before them
augment_appending(g) ==
    IF g.is_augmented_ \/ g.start_symbol_ = nullptr
    THEN g
    ELSE LET got == get_nonterminal(g.symbol_table_, Append(g.start_symbol_.name, "'"))
         IN  clear_cache([g EXCEPT !.symbol_table_ = got.symbols,
                                   !.productions_ =
                                       Append(@, [lhs |-> got.symbol,
                                                  rhs |-> <<g.start_symbol_>>]),
                                   !.start_symbol_ = got.symbol,
                                   !.is_augmented_ = TRUE])

\* Grammar::augment
augment(g) ==
    IF g.is_augmented_ \/ g.start_symbol_ = nullptr
    THEN g
    ELSE LET got == get_nonterminal(g.symbol_table_, Append(g.start_symbol_.name, "'"))
             new_start == got.symbol
             augment_prod == [lhs |-> new_start, rhs |-> <<g.start_symbol_>>]
         IN  clear_cache([g EXCEPT !.symbol_table_ = got.symbols,
                                   !.productions_ = <<augment_prod>> \o @,
                                   !.start_symbol_ = new_start,
                                   !.is_augmented_ = TRUE])

\* Grammar::productions_for: the positions of the productions of a symbol
productions_for(g, symbol) ==
    {i \in 1..Len(g.productions_) : g.productions_[i].lhs = symbol}

\* One pass of the loop of Grammar::compute_epsilon_derivers over the
\* productions from position i on: the map and whether the pass changed it
RECURSIVE EpsilonPass(_, _, _, _)
EpsilonPass(prods, eps, i, changed) ==
    IF i > Len(prods) THEN [eps |-> eps, changed |-> changed]
    ELSE LET lhs == prods[i].lhs
             rhs == prods[i].rhs
         IN  IF At(eps, lhs, FALSE)
             THEN EpsilonPass(prods, eps, i + 1, changed)
             ELSE IF rhs = <<>> \/ (Len(rhs) = 1 /\ is_epsilon(rhs[1]))
             THEN EpsilonPass(prods, Put(eps, lhs, TRUE), i + 1, TRUE)
             ELSE IF \A k \in 1..Len(rhs) :
                        /\ ~(is_terminal(rhs[k]) \/ is_end_of_input(rhs[k]))
                        /\ At(eps, rhs[k], FALSE)
             THEN EpsilonPass(prods, Put(eps, lhs, TRUE), i + 1, TRUE)
             ELSE EpsilonPass(prods, eps, i + 1, changed)

RECURSIVE EpsilonLoop(_, _)
EpsilonLoop(prods, eps) ==
    LET pass == EpsilonPass(prods, eps, 1, FALSE)
    IN  IF pass.changed THEN EpsilonLoop(prods, pass.eps) ELSE pass.eps

\* Grammar::compute_epsilon_derivers: the grammar with the cache filled
compute_epsilon_derivers(g) ==
    LET init == [s \in get_nonterminals(g.symbol_table_) \cup {epsilon_} |-> is_epsilon(s)]
    IN  [g EXCEPT !.epsilon_derivers_ = EpsilonLoop(g.productions_, init),
                  !.epsilon_computed_ = TRUE]

\* The grammar as Grammar::derives_epsilon leaves it
after_derives_epsilon(g) ==
    IF g.epsilon_computed_ THEN g ELSE compute_epsilon_derivers(g)

\* Grammar::derives_epsilon(symbol): the value returned
derives_epsilon(g, symbol) ==
    At(after_derives_epsilon(g).epsilon_derivers_, symbol, FALSE)

\* Grammar::derives_epsilon(symbols)
derives_epsilon_seq(g, symbols) ==
    \A k \in 1..Len(symbols) : derives_epsilon(g, symbols[k])

\* The inner loop as it would be if it never added epsilon after the last
\* symbol of a right-hand side
RECURSIVE FirstOfRhs_never_epsilon(_, _, _, _)
FirstOfRhs_never_epsilon(first, eps, rhs, i) ==
    IF i > Len(rhs) THEN {}
    ELSE (At(first, rhs[i], {}) \ {epsilon_})
         \cup (IF ~At(eps, rhs[i], FALSE) THEN {}
               ELSE FirstOfRhs_never_epsilon(first, eps, rhs, i + 1))

\* The inner loop of Grammar::compute_first_sets for one right-hand side, from
\* position i on: what the production adds to FIRST of its left-hand side
RECURSIVE FirstOfRhs(_, _, _, _)
FirstOfRhs(first, eps, rhs, i) ==
    IF i > Len(rhs) THEN {}
    ELSE (At(first, rhs[i], {}) \ {epsilon_})
         \cup (IF ~At(eps, rhs[i], FALSE) THEN {}
               ELSE IF i = Len(rhs) THEN {epsilon_}
               ELSE FirstOfRhs(first, eps, rhs, i + 1))

\* The pass as it would be if it set changed whatever the sizes
RECURSIVE FirstPass_always_changed(_, _, _, _, _)
FirstPass_always_changed(prods, eps, first, i, changed) ==
    IF i > Len(prods) THEN [first |-> first, changed |-> TRUE]
    ELSE LET lhs == prods[i].lhs
             rhs == prods[i].rhs
             old == At(first, lhs, {})
             new == IF rhs = <<>> THEN old \cup {epsilon_}
                    ELSE old \cup FirstOfRhs(first, eps, rhs, 1)
         IN  CHOOSE pass \in {FirstPass_always_changed(prods, eps, next, i + 1, TRUE) :
                                 next \in {Put(first, lhs, new)}} : TRUE

RECURSIVE FirstPass(_, _, _, _, _)
FirstPass(prods, eps, first, i, changed) ==
    IF i > Len(prods) THEN [first |-> first, changed |-> changed]
    ELSE LET lhs == prods[i].lhs
             rhs == prods[i].rhs
             old == At(first, lhs, {})
             new == IF rhs = <<>> THEN old \cup {epsilon_}
                    ELSE old \cup FirstOfRhs(first, eps, rhs, 1)
         IN  CHOOSE pass \in {FirstPass(prods, eps, next, i + 1, grown) :
                                 next \in {Put(first, lhs, new)},
                                 grown \in {changed \/ Cardinality(new) # Cardinality(old)}} :
                    TRUE

RECURSIVE FirstLoop(_, _, _)
FirstLoop(prods, eps, first) ==
    LET pass == FirstPass(prods, eps, first, 1, FALSE)
    IN  IF pass.changed THEN FirstLoop(prods, eps, pass.first) ELSE pass.first

\* Grammar::compute_first_sets: the grammar with the FIRST cache filled (and the
\* nullable cache, which derives_epsilon fills on its first use in the loop)
compute_first_sets(g) ==
    LET g1 == IF \A i \in 1..Len(g.productions_) : g.productions_[i].rhs = <<>>
              THEN g ELSE after_derives_epsilon(g)
        eps == after_derives_epsilon(g).epsilon_derivers_
        syms == g.symbol_table_
        init == [s \in get_terminals(syms) \cup get_nonterminals(syms)
                        \cup {epsilon_, end_of_input_} |->
                    IF is_nonterminal(s) THEN {} ELSE {s}]
    IN  [g1 EXCEPT !.first_sets_ = FirstLoop(g.productions_, eps, init),
                   !.first_sets_computed_ = TRUE]

\* The grammar as Grammar::first_set leaves it
after_first_set(g) ==
    IF g.first_sets_computed_ THEN g ELSE compute_first_sets(g)

\* Grammar::first_set(symbol): the value returned
first_set(g, symbol) == At(after_first_set(g).first_sets_, symbol, {})

\* The loop of Grammar::first_set(symbols), from position i on
RECURSIVE FirstSeqLoop(_, _, _)
FirstSeqLoop(g, symbols, i) ==
    IF i > Len(symbols) THEN {}
    ELSE (first_set(g, symbols[i]) \ {epsilon_})
         \cup (IF ~derives_epsilon(g, symbols[i]) THEN {}
               ELSE IF i = Len(symbols) THEN {epsilon_}
               ELSE FirstSeqLoop(g, symbols, i + 1))

\* first_set(symbols) as it would be if it added epsilon whatever the symbols
first_set_seq_always_epsilon(g, symbols) ==
    FirstSeqLoop(g, symbols, 1) \cup {epsilon_}

\* Grammar::first_set(symbols)
first_set_seq(g, symbols) ==
    FirstSeqLoop(g, symbols, 1)
    \cup (IF symbols = <<>> \/ derives_epsilon_seq(g, symbols) THEN {epsilon_} ELSE {})

\* The grammar as Grammar::first_set(symbols) leaves it: the loop reads
\* first_set and derives_epsilon of the first symbol at least
after_first_set_seq(g, symbols) ==
    IF symbols = <<>> THEN g ELSE after_derives_epsilon(after_first_set(g))

\* The body of the loops as it would be if it added FOLLOW of the left-hand
\* side only when nothing comes after the symbol
FollowStep_only_at_end(g, follow, p, i) ==
    LET prod == g.productions_[p]
        beta == SubSeq(prod.rhs, i + 1, Len(prod.rhs))
    IN  IF ~is_nonterminal(prod.rhs[i]) THEN follow
        ELSE Put(follow, prod.rhs[i],
                 At(follow, prod.rhs[i], {})
                 \cup (IF beta = <<>> THEN At(follow, prod.lhs, {})
                       ELSE first_set_seq(g, beta) \ {epsilon_}))

\* The body of the loops of Grammar::compute_follow_sets for the symbol at
\* position i of production p: the FOLLOW map after it (g has its FIRST cache)
FollowStep(g, follow, p, i) ==
    LET prod == g.productions_[p]
        B == prod.rhs[i]
        beta == SubSeq(prod.rhs, i + 1, Len(prod.rhs))
        follow_A == At(follow, prod.lhs, {})
        follow_B == At(follow, B, {})
    IN  IF ~is_nonterminal(B) THEN follow
        ELSE IF beta = <<>> THEN Put(follow, B, follow_B \cup follow_A)
        ELSE Put(follow, B,
                 follow_B \cup (first_set_seq(g, beta) \ {epsilon_})
                          \cup (IF derives_epsilon_seq(g, beta) THEN follow_A ELSE {}))

RECURSIVE FollowPass(_, _, _, _, _)
FollowPass(g, follow, p, i, changed) ==
    IF p > Len(g.productions_) THEN [follow |-> follow, changed |-> changed]
    ELSE IF i > Len(g.productions_[p].rhs) THEN FollowPass(g, follow, p + 1, 1, changed)
    ELSE LET B == g.productions_[p].rhs[i]
             next == FollowStep(g, follow, p, i)
         IN  CHOOSE pass \in {FollowPass(g, after, p, i + 1, grown) :
                                 after \in {next},
                                 grown \in {changed \/ Cardinality(At(next, B, {}))
                                                       # Cardinality(At(follow, B, {}))}} :
                    TRUE

RECURSIVE FollowLoop(_, _)
FollowLoop(g, follow) ==
    LET pass == FollowPass(g, follow, 1, 1, FALSE)
    IN  IF pass.changed THEN FollowLoop(g, pass.follow) ELSE pass.follow

\* Grammar::compute_follow_sets: the grammar with the FOLLOW cache filled
compute_follow_sets(g) ==
    LET g1 == after_derives_epsilon(after_first_set(g))
        g0 == IF \E p \in 1..Len(g.productions_) : \E i \in 1..Len(g.productions_[p].rhs) :
                    is_nonterminal(g.productions_[p].rhs[i]) /\ i < Len(g.productions_[p].rhs)
              THEN g1 ELSE after_first_set(g)
        empty == [s \in get_nonterminals(g.symbol_table_) |-> {}]
        init == IF g.start_symbol_ # nullptr
                THEN Put(empty, g.start_symbol_, {end_of_input_})
                ELSE empty
    IN  [g0 EXCEPT !.follow_sets_ = FollowLoop(g1, init),
                   !.follow_sets_computed_ = TRUE]

\* The grammar as Grammar::follow_set leaves it
after_follow_set(g) ==
    IF g.follow_sets_computed_ THEN g ELSE compute_follow_sets(g)

\* Grammar::follow_set(symbol): the value returned
follow_set(g, symbol) == At(after_follow_set(g).follow_sets_, symbol, {})

\* The issues as they would be if the right-hand sides were not looked at
get_validation_errors_without_undefined(g) ==
    (IF g.start_symbol_ = nullptr THEN {<<"No start symbol defined">>} ELSE {})
    \cup (IF g.productions_ = <<>> THEN {<<"No productions defined">>} ELSE {})

\* Grammar::get_validation_errors: the messages of the vector returned
get_validation_errors(g) ==
    LET prods == g.productions_
        defined_nonterminals == {prods[i].lhs : i \in 1..Len(prods)}
        used_nonterminals ==
            {s \in UNION {{prods[i].rhs[k] : k \in 1..Len(prods[i].rhs)} : i \in 1..Len(prods)} :
                is_nonterminal(s)}
    IN  (IF g.start_symbol_ = nullptr THEN {<<"No start symbol defined">>} ELSE {})
        \cup (IF prods = <<>> THEN {<<"No productions defined">>} ELSE {})
        \cup {<<"Undefined nonterminal: ", s.name>> : s \in used_nonterminals \ defined_nonterminals}

\* Grammar::is_valid
is_valid(g) == get_validation_errors(g) = {}

---------------------------------------------------------------------------
(* Actions and the parse table (parse_table.h, parse_table.cpp).           *)

Action(type, value) == [type |-> type, value |-> value]
Shift(n) == Action("SHIFT", n)
Reduce(n) == Action("REDUCE", n)
Accept == Action("ACCEPT", -1)
Error == Action("ERROR", -1)

is_shift(act) == act.type = "SHIFT"
is_reduce(act) == act.type = "REDUCE"
is_accept(act) == act.type = "ACCEPT"
is_error(act) == act.type = "ERROR"

\* Action::to_string: "s<n>", "r<n>", "acc", "err"
to_string(act) ==
    CASE act.type = "SHIFT" -> <<"s", act.value>>
      [] act.type = "REDUCE" -> <<"r", act.value>>
      [] act.type = "ACCEPT" -> <<"acc">>
      [] act.type = "ERROR" -> <<"err">>

\* ParseTable::ParseTable
ParseTable(num_states, terminals, nonterminals) ==
    [num_states_ |-> num_states,
     terminals_ |-> terminals,
     nonterminals_ |-> nonterminals,
     action_table_ |-> EmptyMap,
     goto_table_ |-> EmptyMap,
     conflicts_ |-> <<>>]

\* No table object
NoTable == ParseTable(-1, {}, {})

\* The text of a conflict: "Action conflict in state <state> on terminal
\* <name>: existing=<existing>, new=<new>"
ConflictText(state, terminal, existing, new) ==
    [state |-> state, terminal |-> terminal.name,
     existing |-> to_string(existing), new |-> to_string(new)]

\* set_action as it would be if it compared only the types of the held
\* action and the new one
set_action_comparing_types(t, state, terminal, act) ==
    LET key == <<state, terminal>>
        conflict == /\ key \in DOMAIN t.action_table_
                    /\ t.action_table_[key].type # act.type
    IN  [t EXCEPT !.conflicts_ =
                      IF conflict
                      THEN Append(@, ConflictText(state, terminal, t.action_table_[key], act))
                      ELSE @,
                  !.action_table_ = Put(@, key, act)]

\* ParseTable::set_action
set_action(t, state, terminal, act) ==
    LET key == <<state, terminal>>
        conflict == /\ key \in DOMAIN t.action_table_
                    /\ (t.action_table_[key].type # act.type
                        \/ t.action_table_[key].value # act.value)
    IN  [t EXCEPT !.conflicts_ =
                      IF conflict
                      THEN Append(@, ConflictText(state, terminal, t.action_table_[key], act))
                      ELSE @,
                  !.action_table_ = Put(@, key, act)]

\* ParseTable::set_goto
set_goto(t, state, nonterminal, target_state) ==
    [t EXCEPT !.goto_table_ = Put(@, <<state, nonterminal>>, target_state)]

\* ParseTable::get_action
get_action(t, state, terminal) == At(t.action_table_, <<state, terminal>>, Error)

\* ParseTable::get_goto
get_goto(t, state, nonterminal) == At(t.goto_table_, <<state, nonterminal>>, -1)

\* ParseTable::has_conflicts, get_conflicts
has_conflicts(t) == t.conflicts_ # <<>>
get_conflicts(t) == t.conflicts_

---------------------------------------------------------------------------
(* Pointer order.  std::set<SymbolPtr>, LR0ItemSet and LR1ItemSet order    *)
(* their elements by the addresses of the Symbol and Production objects.   *)
(* Which address an allocation gets is not fixed by the program: the heap   *)
(* records, for symbols and for productions, whether addresses grow or      *)
(* shrink with the order of allocation.                                    *)

Heaps == [symbols : {"ascending", "descending"}, productions : {"ascending", "descending"}]

\* The position of a symbol in the symbol table: the order of allocation
SymbolIndex(g, symbol) ==
    IF symbol \in Range(g.symbol_table_)
    THEN CHOOSE i \in 1..Len(g.symbol_table_) : g.symbol_table_[i] = symbol
    ELSE 0

\* The rank of the address of a symbol among the symbols of the grammar
SymbolAddress(g, h, symbol) ==
    IF h.symbols = "ascending" THEN SymbolIndex(g, symbol)
    ELSE Len(g.symbol_table_) + 1 - SymbolIndex(g, symbol)

\* The rank of the address of the production at position p: productions are
\* allocated in the order they are added, the one augment() makes last
ProductionAddress(g, h, p) ==
    LET n == Len(g.productions_)
        allocated == IF g.is_augmented_ THEN (IF p = 1 THEN n ELSE p - 1) ELSE p
    IN  IF h.productions = "ascending" THEN allocated ELSE n + 1 - allocated

\* std::set<SymbolPtr> iteration: the symbols of a set in address order
RECURSIVE SymbolsInOrder(_, _, _)
SymbolsInOrder(g, h, symbols) ==
    IF symbols = {} THEN <<>>
    ELSE LET first == CHOOSE x \in symbols :
                         \A y \in symbols : SymbolAddress(g, h, x) <= SymbolAddress(g, h, y)
         IN  CHOOSE order \in {<<first>> \o SymbolsInOrder(g, h, rest) :
                                  rest \in {symbols \ {first}}} : TRUE

---------------------------------------------------------------------------
(* LR(0) items, states and the automaton (lr_items.h, lr_items.cpp).       *)

LR0Item(production, dot_position) ==
    [production |-> production, dot_position |-> dot_position]

LR1Item(item, lookahead) ==
    [production |-> item.production, dot_position |-> item.dot_position,
     lookahead |-> lookahead]

\* LR0Item::is_complete, next_symbol, advance (the same for LR1Item)
is_complete(g, item) == item.dot_position >= Len(g.productions_[item.production].rhs)

next_symbol(g, item) ==
    IF is_complete(g, item) THEN nullptr
    ELSE g.productions_[item.production].rhs[item.dot_position + 1]

advance(item) == [item EXCEPT !.dot_position = @ + 1]

\* LR1Item::operator<
LR1Less(g, h, x, y) ==
    IF x.production # y.production
    THEN ProductionAddress(g, h, x.production) < ProductionAddress(g, h, y.production)
    ELSE IF x.dot_position # y.dot_position THEN x.dot_position < y.dot_position
    ELSE SymbolAddress(g, h, x.lookahead) < SymbolAddress(g, h, y.lookahead)

\* LR1ItemSet iteration: the items of a set in operator< order
RECURSIVE LR1ItemsInOrder(_, _, _)
LR1ItemsInOrder(g, h, items) ==
    IF items = {} THEN <<>>
    ELSE LET first == CHOOSE x \in items : \A y \in items \ {x} : LR1Less(g, h, x, y)
         IN  <<first>> \o LR1ItemsInOrder(g, h, items \ {first})

\* LR0State::get_transition_symbols, LALRState::get_transition_symbols
get_transition_symbols(g, items) ==
    {next_symbol(g, item) : item \in items} \ {nullptr}

\* LR0State::get_items_for_symbol
get_items_for_symbol(g, items, symbol) ==
    {item \in items : next_symbol(g, item) = symbol}

\* The closure as it would be after one round of its loop
closure_single_pass(items, g) ==
    items \cup {LR0Item(p, 0) :
                  p \in UNION {productions_for(g, next_symbol(g, item)) :
                                  item \in {i \in items : is_nonterminal(next_symbol(g, i))}}}

\* LR0Automaton::closure
RECURSIVE closure(_, _)
closure(items, g) ==
    LET new_items ==
            {LR0Item(p, 0) :
                p \in UNION {productions_for(g, next_symbol(g, item)) :
                                item \in {i \in items : is_nonterminal(next_symbol(g, i))}}}
            \ items
    IN  IF new_items = {} THEN items
        ELSE CHOOSE closed \in {closure(result, g) : result \in {items \cup new_items}} : TRUE

\* goto_set as it would be if it returned the advanced items as they are
goto_set_without_closure(items, symbol, g) ==
    {advance(item) : item \in get_items_for_symbol(g, items, symbol)}

\* LR0Automaton::goto_set
goto_set(items, symbol, g) ==
    closure({advance(item) : item \in get_items_for_symbol(g, items, symbol)}, g)

LR0State(id, items) == [id |-> id, items_ |-> items]

\* The body of that loop as it would be if it recorded the transition only
\* when it made the target state
LR0Transition_new_targets_only(g, aut, current, symbol) ==
    LET goto_items == goto_set(aut.states_[current + 1].items_, symbol, g)
        found == \E i \in 1..Len(aut.states_) : aut.states_[i].items_ = goto_items
        target == Len(aut.states_)
    IN  IF found THEN aut
        ELSE [states_ |-> Append(aut.states_, LR0State(target, goto_items)),
              work_queue |-> Append(aut.work_queue, target),
              transitions_ |-> Put(aut.transitions_, <<current, symbol>>, target)]

\* The body of the loop over the transition symbols of the state being
\* processed in LR0Automaton::LR0Automaton, for one symbol
LR0Transition(g, aut, current, symbol) ==
    LET goto_items == goto_set(aut.states_[current + 1].items_, symbol, g)
        existing == {i \in 1..Len(aut.states_) : aut.states_[i].items_ = goto_items}
        found == existing # {}
        target == IF found
                  THEN aut.states_[CHOOSE i \in existing : \A j \in existing : i <= j].id
                  ELSE Len(aut.states_)
    IN  [states_ |-> IF found THEN aut.states_
                     ELSE Append(aut.states_, LR0State(target, goto_items)),
         work_queue |-> IF found THEN aut.work_queue ELSE Append(aut.work_queue, target),
         transitions_ |-> Put(aut.transitions_, <<current, symbol>>, target)]

RECURSIVE LR0Transitions(_, _, _, _)
LR0Transitions(g, aut, current, symbols) ==
    IF symbols = <<>> THEN aut
    ELSE CHOOSE done \in {LR0Transitions(g, next, current, rest) :
                             next \in {LR0Transition(g, aut, current, Head(symbols))},
                             rest \in {Tail(symbols)}} : TRUE

\* The work-queue loop of LR0Automaton::LR0Automaton: the state at the back of
\* the queue is taken next
RECURSIVE LR0WorkLoop(_, _, _)
LR0WorkLoop(g, h, aut) ==
    IF aut.work_queue = <<>> THEN aut
    ELSE LET n == Len(aut.work_queue)
             current == aut.work_queue[n]
             popped == [aut EXCEPT !.work_queue = SubSeq(@, 1, n - 1)]
             symbols == SymbolsInOrder(g, h,
                            get_transition_symbols(g, aut.states_[current + 1].items_))
         IN  LR0WorkLoop(g, h, LR0Transitions(g, popped, current, symbols))

\* LR0Automaton::LR0Automaton on a grammar with at least one production
LR0Automaton(g, h) ==
    LET initial_set == closure({LR0Item(1, 0)}, g)
        done == LR0WorkLoop(g, h, [states_ |-> <<LR0State(0, initial_set)>>,
                                   work_queue |-> <<0>>,
                                   transitions_ |-> EmptyMap])
    IN  [member \in {"states_", "transitions_"} |-> done[member]]

\* LR0Automaton::get_transition
get_transition(aut, from_state, symbol) == At(aut.transitions_, <<from_state, symbol>>, -1)

---------------------------------------------------------------------------
(* LALR states and the table generator (lr_items.cpp, parse_table.cpp).    *)

\* The const overloads of first_set and follow_set, which the generator calls
\* through its const Grammar&: they return what the overloads above return and
\* leave the grammar object as it is
first_set_const(g, symbol) == first_set(g, symbol)
follow_set_const(g, symbol) == follow_set(g, symbol)

\* SymbolTable::get_end_of_input
get_end_of_input(symbols) == end_of_input_

\* std::string::back
back(name) == name[Len(name)]

\* LR0Item::operator<
LR0Less(g, h, x, y) ==
    IF x.production # y.production
    THEN ProductionAddress(g, h, x.production) < ProductionAddress(g, h, y.production)
    ELSE x.dot_position < y.dot_position

\* LR0ItemSet iteration
RECURSIVE LR0ItemsInOrder(_, _, _)
LR0ItemsInOrder(g, h, items) ==
    IF items = {} THEN <<>>
    ELSE LET first == CHOOSE x \in items : \A y \in items \ {x} : LR0Less(g, h, x, y)
         IN  <<first>> \o LR0ItemsInOrder(g, h, items \ {first})

\* LALRState::LALRState
LALRState(id, core) == [id |-> id, core_ |-> core, lookaheads_ |-> EmptyMap, items_ |-> {}]

\* LALRState::add_lookahead: lookaheads_[item] gains the lookahead and items_ is
\* rebuilt from the core; reading lookaheads_[core_item] creates the entries
add_lookahead(state, item, lookahead) ==
    LET added == Put(state.lookaheads_, item, At(state.lookaheads_, item, {}) \cup {lookahead})
        lookaheads == [i \in DOMAIN added \cup state.core_ |-> At(added, i, {})]
    IN  [state EXCEPT !.lookaheads_ = lookaheads,
                      !.items_ = UNION {{LR1Item(core_item, la) : la \in lookaheads[core_item]} :
                                            core_item \in state.core_}]

\* The lookaheads as they would be if every complete item were given the
\* end of input alone
ItemLookaheads_end_of_input_only(g, lr0_item) ==
    LET next == next_symbol(g, lr0_item)
    IN  IF is_complete(g, lr0_item) THEN {get_end_of_input(g.symbol_table_)}
        ELSE IF is_terminal(next) THEN {next}
        ELSE IF is_nonterminal(next) THEN first_set_const(g, next)
        ELSE {}

\* The lookaheads LALR1Generator::build_lalr_states computes for one LR(0) item
ItemLookaheads(g, lr0_item) ==
    LET production == g.productions_[lr0_item.production]
        next == next_symbol(g, lr0_item)
    IN  IF is_complete(g, lr0_item)
        THEN IF back(production.lhs.name) = "'" /\ Len(production.rhs) = 1
             THEN {get_end_of_input(g.symbol_table_)}
             ELSE follow_set_const(g, production.lhs)
        ELSE IF is_terminal(next) THEN {next}
        ELSE IF is_nonterminal(next) THEN first_set_const(g, next)
        ELSE {}

RECURSIVE AddLookaheads(_, _, _)
AddLookaheads(state, item, lookaheads) ==
    IF Evaluated(state) /\ lookaheads # <<>>
    THEN AddLookaheads(add_lookahead(state, item, Head(lookaheads)), item, Tail(lookaheads))
    ELSE state

\* The loop over the items of one LR(0) state in build_lalr_states
RECURSIVE BuildLALRState(_, _, _, _)
BuildLALRState(g, h, lalr_state, lr0_items) ==
    IF Evaluated(lalr_state) /\ lr0_items # <<>>
    THEN BuildLALRState(g, h,
             AddLookaheads(lalr_state, Head(lr0_items),
                           SymbolsInOrder(g, h, ItemLookaheads(g, Head(lr0_items)))),
             Tail(lr0_items))
    ELSE lalr_state

\* LALR1Generator::build_lalr_states: the generator's states_ after the call,
\* one LALR state pushed for every LR(0) state
RECURSIVE build_lalr_states(_, _, _, _, _)
build_lalr_states(g, h, lr0_states, i, states) ==
    IF Evaluated(states) /\ i <= Len(lr0_states)
    THEN LET lr0_state == lr0_states[i]
             lalr_state == BuildLALRState(g, h, LALRState(lr0_state.id, lr0_state.items_),
                                          LR0ItemsInOrder(g, h, lr0_state.items_))
         IN  build_lalr_states(g, h, lr0_states, i + 1, Append(states, lalr_state))
    ELSE states

\* The body of that loop as it would be if it reduced by the production after
\* the one of the item
ItemAction_next_production(g, aut, t, state, item) ==
    LET production == g.productions_[item.production]
        next == next_symbol(g, item)
        target_state == get_transition(aut, state.id, next)
    IN  IF is_complete(g, item)
        THEN IF back(production.lhs.name) = "'" /\ Len(production.rhs) = 1
             THEN set_action(t, state.id, item.lookahead, Accept)
             ELSE set_action(t, state.id, item.lookahead, Reduce(item.production))
        ELSE IF is_terminal(next) /\ target_state >= 0
             THEN set_action(t, state.id, next, Shift(target_state))
             ELSE t

\* The body of the loop over the LR(1) items of a state in generate_table
ItemAction(g, aut, t, state, item) ==
    LET production == g.productions_[item.production]
        next == next_symbol(g, item)
        target_state == get_transition(aut, state.id, next)
    IN  IF is_complete(g, item)
        THEN IF back(production.lhs.name) = "'" /\ Len(production.rhs) = 1
             THEN set_action(t, state.id, item.lookahead, Accept)
             ELSE set_action(t, state.id, item.lookahead, Reduce(item.production - 1))
        ELSE IF is_terminal(next) /\ target_state >= 0
             THEN set_action(t, state.id, next, Shift(target_state))
             ELSE t

RECURSIVE ItemActions(_, _, _, _, _)
ItemActions(g, aut, t, state, items) ==
    IF Evaluated(t) /\ items # <<>>
    THEN ItemActions(g, aut, ItemAction(g, aut, t, state, Head(items)), state, Tail(items))
    ELSE t

\* That loop as it would be if it stopped after the first transition symbol
GotoEntries_first_symbol_only(aut, t, state, symbols) ==
    IF symbols # <<>> /\ is_nonterminal(Head(symbols))
                      /\ get_transition(aut, state.id, Head(symbols)) >= 0
    THEN set_goto(t, state.id, Head(symbols), get_transition(aut, state.id, Head(symbols)))
    ELSE t

\* The loop over the transition symbols of a state in generate_table
RECURSIVE GotoEntries(_, _, _, _)
GotoEntries(aut, t, state, symbols) ==
    IF Evaluated(t) /\ symbols # <<>>
    THEN LET symbol == Head(symbols)
             target_state == get_transition(aut, state.id, symbol)
         IN  GotoEntries(aut,
                         IF is_nonterminal(symbol) /\ target_state >= 0
                         THEN set_goto(t, state.id, symbol, target_state) ELSE t,
                         state, Tail(symbols))
    ELSE t

\* The loop over states_ in generate_table
RECURSIVE FillTable(_, _, _, _, _, _)
FillTable(g, h, aut, t, states, i) ==
    IF Evaluated(t) /\ i <= Len(states)
    THEN LET state == states[i]
             actions == ItemActions(g, aut, t, state, LR1ItemsInOrder(g, h, state.items_))
             gotos == GotoEntries(aut, actions, state,
                          SymbolsInOrder(g, h, get_transition_symbols(g, state.items_)))
         IN  FillTable(g, h, aut, gotos, states, i + 1)
    ELSE t

\* LALR1Generator::LALR1Generator on a grammar with at least one production
LALR1Generator(g, h) ==
    [status |-> "constructed", lr0_automaton_ |-> LR0Automaton(g, h), states_ |-> <<>>]

NoGenerator ==
    [status |-> "none", lr0_automaton_ |-> [states_ |-> <<>>, transitions_ |-> EmptyMap],
     states_ |-> <<>>]

\* LALR1Generator::generate_table after its call of build_lalr_states, on the
\* generator as that call left it: the table returned
TableOf(gen, g, h) ==
    LET terminals == get_terminals(g.symbol_table_) \cup {get_end_of_input(g.symbol_table_)}
        nonterminals == get_nonterminals(g.symbol_table_)
    IN  FillTable(g, h, gen.lr0_automaton_,
                  ParseTable(Len(gen.states_), terminals, nonterminals), gen.states_, 1)

\* LALR1Generator::generate_table on an augmented grammar: the generator after
\* the call
generate_table(gen, g, h) ==
    [gen EXCEPT !.states_ = build_lalr_states(g, h, gen.lr0_automaton_.states_, 1, @)]

---------------------------------------------------------------------------
(* Tokens, parse trees and the driver (token.h, parser.h, parser.cpp).     *)

Token(type, value, line, column) ==
    [type |-> type, value |-> value, line |-> line, column |-> column]

is_eof(token) == token.type = "EOF_TOKEN"

\* Lexer::next_token on a lexer that has the tokens of the sequence left to
\* give: the token at position pos, the EOF token once they are used up
next_token(tokens, pos) ==
    IF pos <= Len(tokens) THEN tokens[pos]
    ELSE Token("EOF_TOKEN", <<>>, 1, Len(tokens) + 1)

\* ParseNode::ParseNode; a null ParseNodePtr
ParseNode(symbol, value) == [symbol |-> symbol, value |-> value, children |-> <<>>]
NoNode == ParseNode(nullptr, <<>>)

\* ParseNode::add_child
add_child(node, child) == [node EXCEPT !.children = Append(@, child)]

StackElement(state, symbol, node) == [state |-> state, symbol |-> symbol, node |-> node]

\* ParseResult::ParseResult(tree) and ParseResult(error, line, col)
ParseSuccess(tree) ==
    [success |-> TRUE, tree |-> tree, error_message |-> <<>>,
     error_line |-> 0, error_column |-> 0]
ParseFailure(error, line, col) ==
    [success |-> FALSE, tree |-> NoNode, error_message |-> error,
     error_line |-> line, error_column |-> col]
NoResult == ParseFailure(<<>>, 0, 0)

\* The terminal parse_internal finds for the current token
TerminalOf(g, h, token) ==
    IF is_eof(token) THEN get_end_of_input(g.symbol_table_)
    ELSE LET matching == {sym \in get_terminals(g.symbol_table_) :
                             is_terminal(sym) /\ sym.token_type = token.type}
         IN  IF matching = {} THEN nullptr ELSE Head(SymbolsInOrder(g, h, matching))

\* LALR1Parser::get_expected_symbols
get_expected_symbols(g, t, state) ==
    {terminal \in get_terminals(g.symbol_table_) : ~is_error(get_action(t, state, terminal))}
    \cup (IF is_error(get_action(t, state, get_end_of_input(g.symbol_table_)))
          THEN {} ELSE {get_end_of_input(g.symbol_table_)})

\* The names of a sequence of symbols
RECURSIVE Names(_)
Names(symbols) ==
    IF symbols = <<>> THEN <<>> ELSE <<Head(symbols).name>> \o Names(Tail(symbols))

\* The message of the error case: the names are appended when the text that
\* joins them with ", " is not empty
UnexpectedToken(value, expected_symbols) ==
    IF expected_symbols = <<>> \/ expected_symbols = <<<<>>>>
    THEN <<"Unexpected token '", value, "'">>
    ELSE <<"Unexpected token '", value, "'. Expected: ", expected_symbols>>

\* The pop loop of a reduction: k frames are popped unless the stack runs
\* empty first; rhs_nodes holds the nodes in the order they were popped
RECURSIVE PopFrames(_, _, _)
PopFrames(stack, k, rhs_nodes) ==
    IF k = 0 THEN [underflow |-> FALSE, stack |-> stack, rhs_nodes |-> rhs_nodes]
    ELSE IF stack = <<>> THEN [underflow |-> TRUE, stack |-> stack, rhs_nodes |-> rhs_nodes]
    ELSE PopFrames(SubSeq(stack, 1, Len(stack) - 1), k - 1,
                   Append(rhs_nodes, stack[Len(stack)].node))

\* The children as they would be if added in the order they were popped
RECURSIVE AddChildren_in_popped_order(_, _, _)
AddChildren_in_popped_order(lhs_node, rhs_nodes, i) ==
    IF i = 0 THEN lhs_node
    ELSE LET node == rhs_nodes[Len(rhs_nodes) - i + 1]
         IN  AddChildren_in_popped_order(
                 IF node # NoNode THEN add_child(lhs_node, node) ELSE lhs_node,
                 rhs_nodes, i - 1)

\* The children of the new node: the popped nodes in reverse, null ones left out
RECURSIVE AddChildren(_, _, _)
AddChildren(lhs_node, rhs_nodes, i) ==
    IF i = 0 THEN lhs_node
    ELSE AddChildren(IF rhs_nodes[i] # NoNode THEN add_child(lhs_node, rhs_nodes[i])
                     ELSE lhs_node,
                     rhs_nodes, i - 1)

\* LALR1Parser::parse_internal up to the loop: the parse about to take its
\* first step
StartOfParse(tokens) ==
    [status |-> "running", tokens |-> tokens, pos |-> 1,
     stack |-> <<StackElement(0, nullptr, NoNode)>>, result |-> NoResult]

NoParser ==
    [status |-> "none", tokens |-> <<>>, pos |-> 1, stack |-> <<>>, result |-> NoResult]

Return(p, result) == [p EXCEPT !.status = "done", !.result = result]

\* One iteration of the loop of LALR1Parser::parse_internal
parse_step(p, g, h, t) ==
    LET current_token == next_token(p.tokens, p.pos)
        top == p.stack[Len(p.stack)]
        current_state == top.state
        terminal == TerminalOf(g, h, current_token)
        action == get_action(t, current_state, terminal)
    IN  IF terminal = nullptr
        THEN Return(p, ParseFailure(<<"Unknown token: ", current_token.value>>,
                                    current_token.line, current_token.column))
        ELSE IF is_shift(action)
        THEN [p EXCEPT !.stack = Append(@, StackElement(action.value, terminal,
                                                       ParseNode(terminal, current_token.value))),
                       !.pos = @ + 1]
        ELSE IF is_reduce(action)
        THEN LET production == g.productions_[action.value + 1]
                 popped == PopFrames(p.stack, Len(production.rhs), <<>>)
                 lhs_node == AddChildren(ParseNode(production.lhs, <<>>),
                                         popped.rhs_nodes, Len(popped.rhs_nodes))
                 state_after_pop == IF popped.stack = <<>> THEN 0
                                    ELSE popped.stack[Len(popped.stack)].state
                 goto_state == get_goto(t, state_after_pop, production.lhs)
             IN  IF popped.underflow
                 THEN Return(p, ParseFailure(<<"Stack underflow during reduction">>,
                                             current_token.line, current_token.column))
                 ELSE IF goto_state < 0
                 THEN Return(p, ParseFailure(<<"No goto entry for state ", state_after_pop,
                                               " and symbol ", production.lhs.name>>,
                                             current_token.line, current_token.column))
                 ELSE [p EXCEPT !.stack = Append(popped.stack,
                                    StackElement(goto_state, production.lhs, lhs_node))]
        ELSE IF is_accept(action)
        THEN IF Len(p.stack) >= 2
             THEN Return(p, ParseSuccess(top.node))
             ELSE Return(p, ParseFailure(<<"Invalid stack state at accept">>,
                                         current_token.line, current_token.column))
        ELSE Return(p, ParseFailure(
                 UnexpectedToken(current_token.value,
                     Names(SymbolsInOrder(g, h, get_expected_symbols(g, t, current_state)))),
                 current_token.line, current_token.column))

---------------------------------------------------------------------------
(* The grammar construction interface, called in any order.                *)

NameS == <<"S">>
NameSPrime == <<"S", "'">>
NameA == <<"a">>

S == Nonterminal(NameS)
SPrime == Nonterminal(NameSPrime)
a == Terminal(NameA, "IDENTIFIER")

\* Sequences of at most n symbols of the set
SeqsUpTo(symbols, n) == UNION {[1..k -> symbols] : k \in 0..n}

NoOp == [name |-> "none", symbol |-> nullptr, result |-> {}]
Read(name, symbol, result) == [name |-> name, symbol |-> symbol, result |-> result]

TableIdle ==
    /\ table = NoTable
    /\ calls = <<>>
    /\ heap = [symbols |-> "ascending", productions |-> "ascending"]
    /\ generator = NoGenerator
    /\ parser = NoParser
    /\ parses = <<>>

tableVars == <<table, calls, heap, generator, parser, parses>>

\* The symbol tables the caller has filled before adding productions:
\* get_nonterminal("S"), get_terminal("a", IDENTIFIER) and, in the second,
\* get_nonterminal("S'")
InternedTables ==
    LET t1 == get_nonterminal(SymbolTableInit, NameS).symbols
        t2 == get_terminal(t1, NameA, "IDENTIFIER").symbols
    IN  {t2, get_nonterminal(t2, NameSPrime).symbols}

InitGrammar ==
    /\ \E symbols \in InternedTables :
         grammar = [GrammarInit EXCEPT !.symbol_table_ = symbols]
    /\ op = NoOp
    /\ dirty = {}
    /\ TableIdle

UserProductions(g) == Len(g.productions_) - (IF g.is_augmented_ THEN 1 ELSE 0)

AddProduction(lhs, rhs) ==
    /\ UserProductions(grammar) < MaxProds
    /\ grammar' = add_production(grammar, lhs, rhs)
    /\ op' = NoOp
    /\ dirty' = {}
    /\ UNCHANGED tableVars

AddSymbol(p, symbol) ==
    /\ Len(grammar.productions_[p].rhs) < MaxRhs
    /\ grammar' = add_symbol(grammar, p, symbol)
    /\ op' = NoOp
    /\ dirty' = dirty \cup {"add_symbol"}
    /\ UNCHANGED tableVars

SetStartSymbol(start) ==
    /\ grammar.start_symbol_ = nullptr
    /\ grammar' = set_start_symbol(grammar, start)
    /\ op' = NoOp
    /\ dirty' = dirty \cup {"set_start_symbol"}
    /\ UNCHANGED tableVars

Augment ==
    /\ grammar' = augment(grammar)
    /\ op' = NoOp
    /\ dirty' = IF grammar' = grammar THEN dirty ELSE {}
    /\ UNCHANGED tableVars

FirstSet(symbol) ==
    /\ grammar' = after_first_set(grammar)
    /\ op' = Read("first_set", symbol, first_set(grammar, symbol))
    /\ UNCHANGED <<dirty, tableVars>>

FollowSet(symbol) ==
    /\ grammar' = after_follow_set(grammar)
    /\ op' = Read("follow_set", symbol, follow_set(grammar, symbol))
    /\ UNCHANGED <<dirty, tableVars>>

DerivesEpsilon(symbol) ==
    /\ grammar' = after_derives_epsilon(grammar)
    /\ op' = Read("derives_epsilon", symbol, {derives_epsilon(grammar, symbol)})
    /\ UNCHANGED <<dirty, tableVars>>

\* get_validation_errors() and is_valid(), both const
GetValidationErrors ==
    /\ op' = Read("get_validation_errors", nullptr, get_validation_errors(grammar))
    /\ UNCHANGED <<grammar, dirty, tableVars>>

RhsSymbols(g) == get_all_symbols(g.symbol_table_) \ {end_of_input_}

NextGrammar ==
    \/ \E lhs \in get_nonterminals(grammar.symbol_table_) :
         \E rhs \in SeqsUpTo(RhsSymbols(grammar), MaxRhs) : AddProduction(lhs, rhs)
    \/ \E p \in 1..Len(grammar.productions_) :
         \E symbol \in RhsSymbols(grammar) : AddSymbol(p, symbol)
    \/ \E start \in get_nonterminals(grammar.symbol_table_) : SetStartSymbol(start)
    \/ Augment
    \/ \E symbol \in get_nonterminals(grammar.symbol_table_) : FirstSet(symbol)
    \/ \E symbol \in get_nonterminals(grammar.symbol_table_) : FollowSet(symbol)
    \/ \E symbol \in get_nonterminals(grammar.symbol_table_) : DerivesEpsilon(symbol)
    \/ GetValidationErrors

SpecGrammar == InitGrammar /\ [][NextGrammar]_vars

---------------------------------------------------------------------------
(* The parse table interface: set_action and set_goto called in any order  *)
(* on a table of MaxState states.                                          *)

TableStates == 0..(MaxState - 1)
TableTerminals == {a, end_of_input_}
TableActions ==
    {Shift(n) : n \in TableStates} \cup {Reduce(n) : n \in 1..2} \cup {Accept, Error}

InitTable ==
    /\ grammar = GrammarInit
    /\ op = NoOp
    /\ dirty = {}
    /\ table = ParseTable(MaxState, TableTerminals, {S})
    /\ calls = <<>>
    /\ heap = [symbols |-> "ascending", productions |-> "ascending"]
    /\ generator = NoGenerator
    /\ parser = NoParser
    /\ parses = <<>>

\* A call of set_action, logged with what the cell held when it was made
SetAction(state, terminal, act) ==
    /\ Len(calls) < MaxCalls
    /\ table' = set_action(table, state, terminal, act)
    /\ calls' = Append(calls, [state |-> state, terminal |-> terminal, action |-> act,
                               had |-> <<state, terminal>> \in DOMAIN table.action_table_,
                               held |-> get_action(table, state, terminal)])
    /\ UNCHANGED <<grammar, op, dirty, heap, generator, parser, parses>>

SetGoto(state, nonterminal, target_state) ==
    /\ table' = set_goto(table, state, nonterminal, target_state)
    /\ UNCHANGED <<grammar, op, dirty, calls, heap, generator, parser, parses>>

NextTable ==
    \/ \E state \in TableStates : \E terminal \in TableTerminals : \E act \in TableActions :
         SetAction(state, terminal, act)
    \/ \E state \in TableStates : \E target_state \in TableStates :
         SetGoto(state, S, target_state)

SpecTable == InitTable /\ [][NextTable]_vars

---------------------------------------------------------------------------
(* The whole pipeline: a caller builds a grammar, may augment it, constructs *)
(* a generator on it, generates tables, and runs a parser on a token stream. *)

\* The grammar a caller builds: get_nonterminal for each name, get_terminal for
\* each (name, token type), add_production for each (lhs, rhs), and
\* set_start_symbol unless start is nullptr
RECURSIVE InternNonterminals(_, _)
InternNonterminals(symbols, names) ==
    IF names = <<>> THEN symbols
    ELSE InternNonterminals(get_nonterminal(symbols, Head(names)).symbols, Tail(names))

RECURSIVE InternTerminals(_, _)
InternTerminals(symbols, terminals) ==
    IF terminals = <<>> THEN symbols
    ELSE InternTerminals(get_terminal(symbols, Head(terminals).name,
                                      Head(terminals).token_type).symbols,
                         Tail(terminals))

RECURSIVE AddProductions(_, _)
AddProductions(g, productions) ==
    IF productions = <<>> THEN g
    ELSE AddProductions(add_production(g, Head(productions)[1], Head(productions)[2]),
                        Tail(productions))

BuildGrammar(nonterminals, terminals, productions, start) ==
    LET symbols == InternTerminals(InternNonterminals(SymbolTableInit, Names(nonterminals)),
                                   terminals)
        g == AddProductions([GrammarInit EXCEPT !.symbol_table_ = symbols], productions)
    IN  IF start = nullptr THEN g ELSE set_start_symbol(g, start)

E == Nonterminal(<<"E">>)
T == Nonterminal(<<"T">>)
L == Nonterminal(<<"L">>)
R == Nonterminal(<<"R">>)
A == Nonterminal(<<"A">>)
B == Nonterminal(<<"B">>)
APrime == Nonterminal(<<"A", "'">>)
num == Terminal(<<"n", "u", "m">>, "NUMBER")
plus == Terminal(<<"+">>, "PLUS")
id == Terminal(<<"i", "d">>, "IDENTIFIER")
star == Terminal(<<"*">>, "MULTIPLY")
assign == Terminal(<<"=">>, "ASSIGN")
b == Terminal(<<"b">>, "NUMBER")
F == Nonterminal(<<"F">>)
lparen == Terminal(<<"(">>, "LPAREN")
rparen == Terminal(<<")">>, "RPAREN")
minus == Terminal(<<"-">>, "MINUS")
divide == Terminal(<<"/">>, "DIVIDE")
power == Terminal(<<"^">>, "POWER")

\* E -> E + T | T;  T -> num  (README.md)
ExpressionGrammar ==
    BuildGrammar(<<E, T>>, <<plus, num>>,
                 <<<<E, <<E, plus, T>>>>, <<E, <<T>>>>, <<T, <<num>>>>>>, E)

\* S -> id  (test_simple_grammar)
SimpleGrammar == BuildGrammar(<<S>>, <<id>>, <<<<S, <<id>>>>>>, S)

\* S -> L = R | R;  L -> * R | id;  R -> L
AssignmentGrammar ==
    BuildGrammar(<<S, L, R>>, <<assign, star, id>>,
                 <<<<S, <<L, assign, R>>>>, <<S, <<R>>>>, <<L, <<star, R>>>>,
                   <<L, <<id>>>>, <<R, <<L>>>>>>, S)

\* S -> a A;  A -> epsilon, the epsilon-production stored as [epsilon]
EpsilonSymbolGrammar ==
    BuildGrammar(<<S, A>>, <<a>>, <<<<S, <<a, A>>>>, <<A, <<epsilon_>>>>>>, S)

\* S -> a A;  A -> epsilon, the epsilon-production stored with an empty rhs
EmptyRhsGrammar ==
    BuildGrammar(<<S, A>>, <<a>>, <<<<S, <<a, A>>>>, <<A, <<>>>>>>, S)

\* S -> b A';  A' -> a
ApostropheGrammar ==
    BuildGrammar(<<S, APrime>>, <<a, b>>, <<<<S, <<b, APrime>>>>, <<APrime, <<a>>>>>>, S)

\* S -> A' b;  A' -> a
ApostropheFirstGrammar ==
    BuildGrammar(<<S, APrime>>, <<a, b>>, <<<<S, <<APrime, b>>>>, <<APrime, <<a>>>>>>, S)

\* No symbols of the caller, no productions, no start symbol
EmptyGrammar == BuildGrammar(<<>>, <<>>, <<>>, nullptr)

\* S -> a, no start symbol set
NoStartGrammar == BuildGrammar(<<S>>, <<a>>, <<<<S, <<a>>>>>>, nullptr)

\* Start symbol S, no productions
StartOnlyGrammar == BuildGrammar(<<S>>, <<a>>, <<>>, S)

\* S -> a B, no production for B
UndefinedGrammar == BuildGrammar(<<S, B>>, <<a>>, <<<<S, <<a, B>>>>>>, S)

\* E -> E + T | T;  T -> T * F | F;  F -> ( E ) | num
\* (the rules of create_calculator_parser without -, / and ^)
ParenExpressionGrammar ==
    BuildGrammar(<<E, T, F>>, <<plus, star, lparen, rparen, num>>,
                 <<<<E, <<E, plus, T>>>>, <<E, <<T>>>>, <<T, <<T, star, F>>>>,
                   <<T, <<F>>>>, <<F, <<lparen, E, rparen>>>>, <<F, <<num>>>>>>, E)

\* E -> E + T | T;  T -> T * F | F;  F -> F ^ F | ( E ) | num
PowerExpressionGrammar ==
    BuildGrammar(<<E, T, F>>, <<plus, star, power, lparen, rparen, num>>,
                 <<<<E, <<E, plus, T>>>>, <<E, <<T>>>>, <<T, <<T, star, F>>>>,
                   <<T, <<F>>>>, <<F, <<F, power, F>>>>, <<F, <<lparen, E, rparen>>>>,
                   <<F, <<num>>>>>>, E)

\* The grammar of create_calculator_parser:
\* E -> E + T | E - T | T;  T -> T * F | T / F | F;  F -> F ^ F | ( E ) | num
CalculatorGrammar ==
    BuildGrammar(<<E, T, F>>,
                 <<plus, minus, star, divide, power, lparen, rparen, num>>,
                 <<<<E, <<E, plus, T>>>>, <<E, <<E, minus, T>>>>, <<E, <<T>>>>,
                   <<T, <<T, star, F>>>>, <<T, <<T, divide, F>>>>, <<T, <<F>>>>,
                   <<F, <<F, power, F>>>>, <<F, <<lparen, E, rparen>>>>,
                   <<F, <<num>>>>>>, E)

\* S -> S | a
CyclicGrammar == BuildGrammar(<<S>>, <<a>>, <<<<S, <<S>>>>, <<S, <<a>>>>>>, S)

Catalog ==
    {ExpressionGrammar, SimpleGrammar, AssignmentGrammar, EpsilonSymbolGrammar,
     EmptyRhsGrammar, ApostropheGrammar, EmptyGrammar, NoStartGrammar,
     StartOnlyGrammar, UndefinedGrammar}

Init ==
    /\ grammar \in Catalog
    /\ heap \in Heaps
    /\ op = NoOp
    /\ dirty = {}
    /\ table = NoTable
    /\ calls = <<>>
    /\ generator = NoGenerator
    /\ parser = NoParser
    /\ parses = <<>>

Done(name, result) == [name |-> name, symbol |-> nullptr, result |-> result]

\* What the constructor leaves when productions()[0] is read from an empty
\* vector: the process is gone, or the read gave a production with nothing in
\* it and the automaton has the one state built from it
AfterUndefinedRead ==
    {[NoGenerator EXCEPT !.status = "crashed"],
     [NoGenerator EXCEPT !.status = "constructed",
                         !.lr0_automaton_.states_ = <<LR0State(0, {})>>]}

\* LALR1Generator generator(grammar)
ConstructGenerator ==
    /\ generator.status = "none"
    /\ IF grammar.productions_ = <<>>
       THEN generator' \in AfterUndefinedRead
       ELSE generator' = LALR1Generator(grammar, heap)
    /\ op' = Done("LALR1Generator", {generator'.status})
    /\ UNCHANGED <<grammar, dirty, table, calls, heap, parser, parses>>

\* generator.generate_table()
GenerateTable ==
    /\ generator.status = "constructed"
    /\ parser.status = "none"
    /\ Len(generator.states_) < MaxGenerate * Len(generator.lr0_automaton_.states_)
    /\ IF ~grammar.is_augmented_
       THEN /\ op' = Done("generate_table",
                          {<<"runtime_error",
                             "Grammar must be augmented before generating LALR(1) table">>})
            /\ UNCHANGED <<generator, table>>
       ELSE /\ generator' = generate_table(generator, grammar, heap)
            /\ table' = TableOf(generator', grammar, heap)
            /\ op' = Done("generate_table", {<<"table">>})
    /\ UNCHANGED <<grammar, dirty, calls, heap, parser, parses>>

\* The token kinds a lexer may give: those of the grammar's terminals and one
\* that no terminal has
TokenKinds(g) == {sym.token_type : sym \in get_terminals(g.symbol_table_)} \cup {"STRING"}

\* The tokens of a sequence of kinds: each a lexeme of its own, on line 1
Tokens(kinds) == [i \in 1..Len(kinds) |-> Token(kinds[i], <<kinds[i], i>>, 1, i)]

\* LALR1Parser parser(grammar, table); parser.parse(lexer) up to the loop
StartParse(kinds) ==
    /\ table # NoTable
    /\ parser.status = "none"
    /\ parser' = StartOfParse(Tokens(kinds))
    /\ op' = Done("parse", {})
    /\ UNCHANGED <<grammar, dirty, table, calls, heap, generator, parses>>

\* One iteration of the driver loop
ParseStep ==
    /\ parser.status = "running"
    /\ Len(parser.stack) <= MaxStack
    /\ parser' = parse_step(parser, grammar, heap, table)
    /\ UNCHANGED <<grammar, op, dirty, table, calls, heap, generator, parses>>

Next ==
    \/ (generator.status = "none" /\ Augment)
    \/ ConstructGenerator
    \/ GenerateTable
    \/ \E kinds \in SeqsUpTo(TokenKinds(grammar), MaxTokens) : StartParse(kinds)
    \/ ParseStep

Spec == Init /\ [][Next]_vars

---------------------------------------------------------------------------
(* The set computations read on grammars that are not changed between the  *)
(* reads (SpecSets): every list of at most MaxSetProds productions over    *)
(* S, A, a, b and epsilon, with right-hand sides of at most MaxSetRhs       *)
(* symbols, and S the start symbol.                                         *)

SetGrammars ==
    LET rhs_symbols == {S, A, a, b, epsilon_}
        productions == {<<lhs, rhs>> : lhs \in {S, A},
                                      rhs \in SeqsUpTo(rhs_symbols, MaxSetRhs)}
    IN  {BuildGrammar(<<S, A>>, <<a, b>>, prods, S) :
            prods \in SeqsUpTo(productions, MaxSetProds)}

InitSets ==
    /\ grammar \in SetGrammars
    /\ op = NoOp
    /\ dirty = {}
    /\ TableIdle

\* g.first_set(p->rhs()) for the production at position p
FirstSetOfRhs(p) ==
    /\ grammar' = after_first_set_seq(grammar, grammar.productions_[p].rhs)
    /\ op' = [name |-> "first_set(rhs)", symbol |-> grammar.productions_[p].lhs,
              result |-> first_set_seq(grammar, grammar.productions_[p].rhs)]
    /\ UNCHANGED <<dirty, tableVars>>

NextSets ==
    \/ Augment
    \/ \E symbol \in get_nonterminals(grammar.symbol_table_) : FirstSet(symbol)
    \/ \E symbol \in get_nonterminals(grammar.symbol_table_) : FollowSet(symbol)
    \/ \E symbol \in get_nonterminals(grammar.symbol_table_) : DerivesEpsilon(symbol)
    \/ \E p \in 1..Len(grammar.productions_) : FirstSetOfRhs(p)

SpecSets == InitSets /\ [][NextSets]_vars

---------------------------------------------------------------------------
(* The driver on tables filled by the caller (SpecDriver): LALR1Parser     *)
(* takes any ParseTable, here every table of two states over a and $ for   *)
(* the grammar S' -> S; S -> a; S -> a S.                                  *)

DriverGrammar ==
    augment(BuildGrammar(<<S>>, <<a>>, <<<<S, <<a>>>>, <<S, <<a, S>>>>>>, S))

DriverActions == {Shift(1), Reduce(1), Reduce(2), Accept, Error}

\* The table after set_action for every cell given an action other than Error
\* and set_goto for every goto given a state
DriverTable(actions, gotos) ==
    [ParseTable(2, {a, end_of_input_}, {S, SPrime}) EXCEPT
        !.action_table_ = [key \in {k \in DOMAIN actions : ~is_error(actions[k])} |->
                              actions[key]],
        !.goto_table_ = [key \in {k \in DOMAIN gotos : gotos[k] >= 0} |-> gotos[key]]]

InitDriver ==
    /\ grammar = DriverGrammar
    /\ op = NoOp
    /\ dirty = {}
    /\ \E actions \in [(0..1) \X {a, end_of_input_} -> DriverActions] :
         \E gotos \in [(0..1) \X {S} -> {-1, 1}] :
            table = DriverTable(actions, gotos)
    /\ calls = <<>>
    /\ heap = [symbols |-> "ascending", productions |-> "ascending"]
    /\ generator = NoGenerator
    /\ parser = NoParser
    /\ parses = <<>>

RECURSIVE Height(_)
\* The number of levels below a node of the tree
Height(node) ==
    IF node.children = <<>> THEN 0
    ELSE LET below == {Height(node.children[i]) : i \in 1..Len(node.children)}
         IN  1 + CHOOSE highest \in below : \A height \in below : height <= highest

\* The loop of parse goes on for as long as the table says: the trees on
\* the stack are followed up to MaxHeight levels
NextDriver ==
    \/ \E kinds \in SeqsUpTo(TokenKinds(grammar), MaxTokens) : StartParse(kinds)
    \/ /\ \A i \in 1..Len(parser.stack) : Height(parser.stack[i].node) <= MaxHeight
       /\ ParseStep

SpecDriver == InitDriver /\ [][NextDriver]_vars

---------------------------------------------------------------------------
(* Parsers made by create_lalr1_parser (SpecFactory): grammar is the       *)
(* caller's grammar; the parser refers to the augmented copy, a local of   *)
(* create_lalr1_parser that is destroyed when it returns.                  *)

FactoryCatalog ==
    {ParenExpressionGrammar, SimpleGrammar, EmptyRhsGrammar, ApostropheGrammar,
     ApostropheFirstGrammar, CalculatorGrammar}

InitFactory ==
    /\ grammar \in FactoryCatalog
    /\ heap \in Heaps
    /\ op = NoOp
    /\ dirty = {}
    /\ table = NoTable
    /\ calls = <<>>
    /\ generator = NoGenerator
    /\ parser = NoParser
    /\ parses = <<>>

\* The table create_lalr1_parser generates: from the augmented copy
FactoryTable(g, h) ==
    TableOf(generate_table(LALR1Generator(augment(g), h), augment(g), h), augment(g), h)

\* create_lalr1_parser(grammar)
CreateLalr1Parser ==
    /\ table = NoTable
    /\ op.name # "create_lalr1_parser"
    /\ IF has_conflicts(FactoryTable(grammar, heap))
       THEN /\ op' = Done("create_lalr1_parser",
                          {<<"runtime_error", "Grammar has parsing conflicts">>})
            /\ UNCHANGED table
       ELSE /\ op' = Done("create_lalr1_parser", {<<"parser">>})
            /\ table' = FactoryTable(grammar, heap)
    /\ UNCHANGED <<grammar, dirty, calls, heap, generator, parser, parses>>

\* What a read through grammar_ can find once augmented_grammar is
\* destroyed: the storage as it was left, or a symbol table that gives no
\* terminals
AfterDestruction(g) ==
    {g, [g EXCEPT !.symbol_table_ = SelectSeq(@, LAMBDA sym : ~is_terminal(sym))]}

\* One iteration of the driver loop in a parser made by create_lalr1_parser:
\* it reads the destroyed grammar, and the process may end there
ParseStepOnDestroyedGrammar ==
    /\ parser.status = "running"
    /\ Len(parser.stack) <= MaxStack
    /\ \/ \E read \in AfterDestruction(augment(grammar)) :
             parser' = parse_step(parser, read, heap, table)
       \/ parser' = [parser EXCEPT !.status = "crashed"]
    /\ UNCHANGED <<grammar, op, dirty, table, calls, heap, generator, parses>>

NextFactory ==
    \/ CreateLalr1Parser
    \/ \E kinds \in SeqsUpTo(TokenKinds(grammar), MaxTokens) : StartParse(kinds)
    \/ ParseStepOnDestroyedGrammar

SpecFactory == InitFactory /\ [][NextFactory]_vars

---------------------------------------------------------------------------
(* Two calls of parse at once on one parser (SpecShared): the parser is    *)
(* constructed on the augmented grammar E -> E + T | T; T -> num and its   *)
(* table; each call has its own lexer, stack and current token, locals of  *)
(* parse_internal.                                                         *)

RECURSIVE parse_internal(_, _, _, _)
\* LALR1Parser::parse_internal: the loop run to its return
parse_internal(p, g, h, t) ==
    IF p.status # "running" THEN p ELSE parse_internal(parse_step(p, g, h, t), g, h, t)

InitShared ==
    /\ grammar = augment(ExpressionGrammar)
    /\ heap \in Heaps
    /\ op = NoOp
    /\ dirty = {}
    /\ table = FactoryTable(ExpressionGrammar, heap)
    /\ calls = <<>>
    /\ generator = NoGenerator
    /\ parser = NoParser
    /\ parses = <<>>

\* Two threads call parser.parse(lexer), each with a lexer of its own
StartParses(first, second) ==
    /\ parses = <<>>
    /\ parses' = <<StartOfParse(Tokens(first)), StartOfParse(Tokens(second))>>
    /\ UNCHANGED <<grammar, op, dirty, table, calls, heap, generator, parser>>

\* One iteration of the driver loop in a call that works on the stack of
\* the other call
StepParse_on_shared_stack(i) ==
    /\ i \in DOMAIN parses
    /\ parses[i].status = "running"
    /\ parses' = [parses EXCEPT ![i] = parse_step([@ EXCEPT !.stack = parses[3 - i].stack],
                                                  grammar, heap, table)]
    /\ UNCHANGED <<grammar, op, dirty, table, calls, heap, generator, parser>>

\* One iteration of the driver loop in one of the calls
StepParse(i) ==
    /\ i \in DOMAIN parses
    /\ parses[i].status = "running"
    /\ parses' = [parses EXCEPT ![i] = parse_step(@, grammar, heap, table)]
    /\ UNCHANGED <<grammar, op, dirty, table, calls, heap, generator, parser>>

NextShared ==
    \/ \E first \in SeqsUpTo(TokenKinds(grammar), MaxTokens) :
          \E second \in SeqsUpTo(TokenKinds(grammar), MaxTokens) : StartParses(first, second)
    \/ \E i \in 1..2 : StepParse(i)

SpecShared == InitShared /\ [][NextShared]_vars

---------------------------------------------------------------------------
(* The driver loop left to run (SpecLoop): a parser constructed on an      *)
(* augmented grammar and the table generate_table gives for it, with or    *)
(* without conflicts; the loop takes its next iteration whenever it can.   *)

LoopCatalog == {ExpressionGrammar, CyclicGrammar, EmptyRhsGrammar}

InitLoop ==
    /\ \E user \in LoopCatalog :
          /\ grammar = augment(user)
          /\ heap \in Heaps
          /\ table = FactoryTable(user, heap)
    /\ op = NoOp
    /\ dirty = {}
    /\ calls = <<>>
    /\ generator = NoGenerator
    /\ parser = NoParser
    /\ parses = <<>>

\* One iteration of the driver loop; the trees on the stack are followed up
\* to MaxLoopHeight levels, more than a parse of MaxTokens tokens that
\* returns ever builds
LoopStep ==
    /\ \A i \in 1..Len(parser.stack) : Height(parser.stack[i].node) <= MaxLoopHeight
    /\ ParseStep

NextLoop ==
    \/ \E kinds \in SeqsUpTo(TokenKinds(grammar), MaxTokens) : StartParse(kinds)
    \/ LoopStep

SpecLoop == InitLoop /\ [][NextLoop]_vars /\ WF_vars(LoopStep)

---------------------------------------------------------------------------
(* The pipeline on the expression grammar with F -> F ^ F (SpecPower).     *)

InitPower ==
    /\ grammar = PowerExpressionGrammar
    /\ heap \in Heaps
    /\ op = NoOp
    /\ dirty = {}
    /\ table = NoTable
    /\ calls = <<>>
    /\ generator = NoGenerator
    /\ parser = NoParser
    /\ parses = <<>>

SpecPower == InitPower /\ [][Next]_vars

---------------------------------------------------------------------------
(* The loops of the constructions, one pass at a time (SpecPasses): the    *)
(* work-queue loop of the LR0Automaton constructor, then the loops of      *)
(* compute_epsilon_derivers, compute_first_sets and compute_follow_sets in *)
(* the order in which they end.  Each action is one iteration of a while   *)
(* loop together with the code that runs when the loop is left.  The       *)
(* program goes on as long as a loop has an iteration to make: weak        *)
(* fairness of the step.                                                    *)

\* The augmented grammars the loops run on: every list of up to MaxSetProds
\* productions over S, A and a with right-hand sides of up to MaxSetRhs
\* symbols, and three grammars with more productions
PassGrammars ==
    LET productions == {<<lhs, rhs>> : lhs \in {S, A},
                                      rhs \in SeqsUpTo({S, A, a}, MaxSetRhs)}
    IN  {augment(BuildGrammar(<<S, A>>, <<a>>, prods, S)) :
            prods \in SeqsUpTo(productions, MaxSetProds)}
        \cup {augment(g) : g \in {ExpressionGrammar, AssignmentGrammar, CyclicGrammar}}

\* The maps as the three functions set them up before their loops
EpsilonInit(g) == [s \in get_nonterminals(g.symbol_table_) \cup {epsilon_} |-> is_epsilon(s)]
FirstInit(g) ==
    [s \in get_terminals(g.symbol_table_) \cup get_nonterminals(g.symbol_table_)
            \cup {epsilon_, end_of_input_} |-> IF is_nonterminal(s) THEN {} ELSE {s}]
FollowInit(g) ==
    LET empty == [s \in get_nonterminals(g.symbol_table_) |-> {}]
    IN  IF g.start_symbol_ # nullptr THEN Put(empty, g.start_symbol_, {end_of_input_})
        ELSE empty

InitPasses ==
    /\ grammar \in PassGrammars
    /\ heap \in {h \in Heaps : h.productions = "ascending"}
    /\ op = Read("LR0Automaton", nullptr, {})
    /\ generator = [status |-> "constructing",
                    lr0_automaton_ |-> [states_ |-> <<LR0State(0, closure({LR0Item(1, 0)}, grammar))>>,
                                        work_queue |-> <<0>>,
                                        transitions_ |-> EmptyMap],
                    states_ |-> <<>>]
    /\ dirty = {}
    /\ table = NoTable
    /\ calls = <<>>
    /\ parser = NoParser
    /\ parses = <<>>

\* One iteration of while (!work_queue.empty()) in LR0Automaton::LR0Automaton
WorkQueueStep ==
    /\ op.name = "LR0Automaton"
    /\ LET aut == generator.lr0_automaton_
           n == Len(aut.work_queue)
           current == aut.work_queue[n]
           popped == [aut EXCEPT !.work_queue = SubSeq(@, 1, n - 1)]
           symbols == SymbolsInOrder(grammar, heap,
                          get_transition_symbols(grammar, aut.states_[current + 1].items_))
       IN  \E after \in {LR0Transitions(grammar, popped, current, symbols)} :
               /\ generator' = [generator EXCEPT
                                   !.lr0_automaton_ = after,
                                   !.status = IF after.work_queue = <<>> THEN "constructed"
                                              ELSE @]
               /\ IF after.work_queue = <<>>
                  THEN /\ op' = Read("compute_epsilon_derivers", nullptr, {})
                       /\ grammar' = [grammar EXCEPT
                                         !.epsilon_derivers_ = EpsilonInit(grammar)]
                  ELSE UNCHANGED <<op, grammar>>
    /\ UNCHANGED <<dirty, table, calls, heap, parser, parses>>

\* One iteration of while (changed) in Grammar::compute_epsilon_derivers
EpsilonPassStep ==
    /\ op.name = "compute_epsilon_derivers"
    /\ \E pass \in {EpsilonPass(grammar.productions_, grammar.epsilon_derivers_, 1, FALSE)} :
         IF pass.changed
         THEN /\ grammar' = [grammar EXCEPT !.epsilon_derivers_ = pass.eps]
              /\ UNCHANGED op
         ELSE /\ grammar' = [grammar EXCEPT !.epsilon_derivers_ = pass.eps,
                                            !.epsilon_computed_ = TRUE,
                                            !.first_sets_ = FirstInit(grammar)]
              /\ op' = Read("compute_first_sets", nullptr, {})
    /\ UNCHANGED <<dirty, tableVars>>

\* One iteration of while (changed) in Grammar::compute_first_sets
FirstPassStep ==
    /\ op.name = "compute_first_sets"
    /\ \E pass \in {FirstPass(grammar.productions_, grammar.epsilon_derivers_,
                     grammar.first_sets_, 1, FALSE)} :
         IF pass.changed
         THEN /\ grammar' = [grammar EXCEPT !.first_sets_ = pass.first]
              /\ UNCHANGED op
         ELSE /\ grammar' = [grammar EXCEPT !.first_sets_ = pass.first,
                                            !.first_sets_computed_ = TRUE,
                                            !.follow_sets_ = FollowInit(grammar)]
              /\ op' = Read("compute_follow_sets", nullptr, {})
    /\ UNCHANGED <<dirty, tableVars>>

\* One iteration of while (changed) in Grammar::compute_follow_sets
FollowPassStep ==
    /\ op.name = "compute_follow_sets"
    /\ \E pass \in {FollowPass(grammar, grammar.follow_sets_, 1, 1, FALSE)} :
         IF pass.changed
         THEN /\ grammar' = [grammar EXCEPT !.follow_sets_ = pass.follow]
              /\ UNCHANGED op
         ELSE /\ grammar' = [grammar EXCEPT !.follow_sets_ = pass.follow,
                                            !.follow_sets_computed_ = TRUE]
              /\ op' = Read("done", nullptr, {})
    /\ UNCHANGED <<dirty, tableVars>>

NextPasses == WorkQueueStep \/ EpsilonPassStep \/ FirstPassStep \/ FollowPassStep

SpecPasses == InitPasses /\ [][NextPasses]_vars /\ WF_vars(NextPasses)

---------------------------------------------------------------------------
(* LR0Automaton::closure and goto_set called on their own (SpecItems): on  *)
(* the grammars of SpecSets and every set of at most MaxItems items of the *)
(* grammar.  calls holds the arguments of the call.                        *)

\* The LR(0) items of a grammar
AllItems(g) ==
    {LR0Item(p, d) : p \in 1..Len(g.productions_), d \in 0..(MaxSetRhs + 1)}
        \cap {item \in [production : 1..Len(g.productions_), dot_position : 0..(MaxSetRhs + 1)] :
                 item.dot_position <= Len(g.productions_[item.production].rhs)}

ItemSets(g) == {items \in SUBSET AllItems(g) : Cardinality(items) <= MaxItems}

InitItems ==
    /\ grammar \in SetGrammars
    /\ op = NoOp
    /\ dirty = {}
    /\ TableIdle

\* LR0Automaton::closure(items, grammar)
Closure(items) ==
    /\ op = NoOp
    /\ op' = Read("closure", nullptr, closure(items, grammar))
    /\ calls' = <<[items |-> items, symbol |-> nullptr]>>
    /\ UNCHANGED <<grammar, dirty, table, heap, generator, parser, parses>>

\* LR0Automaton::goto_set(items, symbol, grammar)
GotoSet(items, symbol) ==
    /\ op = NoOp
    /\ op' = Read("goto_set", symbol, goto_set(items, symbol, grammar))
    /\ calls' = <<[items |-> items, symbol |-> symbol]>>
    /\ UNCHANGED <<grammar, dirty, table, heap, generator, parser, parses>>

NextItems ==
    \/ op = NoOp /\ \E items \in ItemSets(grammar) : Closure(items)
    \/ op = NoOp /\ \E items \in ItemSets(grammar) :
                        \E symbol \in get_all_symbols(grammar.symbol_table_) \cup {epsilon_} :
                            GotoSet(items, symbol)

SpecItems == InitItems /\ [][NextItems]_vars

---------------------------------------------------------------------------
(* Claims about the parse table interface (SpecTable).                     *)

\* The calls made on a cell, as positions of the log
CallsOn(state, terminal) ==
    {j \in 1..Len(calls) : calls[j].state = state /\ calls[j].terminal = terminal}

\* The action of the first assignment of a cell that has been assigned
FirstAssigned(state, terminal) ==
    LET js == CallsOn(state, terminal)
    IN  calls[CHOOSE j \in js : \A k \in js : j <= k].action

\* C2: a cell that has been assigned keeps the action of its first
\* assignment, and get_action returns it.
C2_FirstAssignmentKept ==
    \A state \in TableStates : \A terminal \in TableTerminals :
        CallsOn(state, terminal) # {} =>
            get_action(table, state, terminal) = FirstAssigned(state, terminal)

\* The calls that targeted a cell holding an action of another type or value
ConflictingCalls ==
    {j \in 1..Len(calls) :
        calls[j].had /\ (calls[j].held.type # calls[j].action.type
                         \/ calls[j].held.value # calls[j].action.value)}

\* The j-th (in order) element of a set of call positions
RECURSIVE NthOf(_, _)
NthOf(js, n) ==
    LET least == CHOOSE j \in js : \A k \in js : j <= k
    IN  IF n = 1 THEN least ELSE NthOf(js \ {least}, n - 1)

\* C3: has_conflicts() holds exactly when some call targeted a cell that
\* held a different action; calls on an empty cell or repeating the held
\* action record nothing; each recorded conflict names the state, the
\* terminal, the existing action and the new one, in the order of the calls.
C3_ConflictRule ==
    /\ has_conflicts(table) <=> ConflictingCalls # {}
    /\ Len(get_conflicts(table)) = Cardinality(ConflictingCalls)
    /\ \A n \in 1..Len(get_conflicts(table)) :
          LET c == calls[NthOf(ConflictingCalls, n)]
          IN  get_conflicts(table)[n] =
                  [state |-> c.state, terminal |-> c.terminal.name,
                   existing |-> to_string(c.held), new |-> to_string(c.action)]

\* A table on which an empty cell was assigned, the same action was assigned
\* to it again, and then a different one
C3_Witness ==
    /\ Len(calls) = 3
    /\ ~calls[1].had
    /\ calls[2].had /\ calls[2].held = calls[2].action
    /\ calls[3].had /\ calls[3].held # calls[3].action
    /\ Len(get_conflicts(table)) = 1

---------------------------------------------------------------------------
(* Claims about the grammar construction interface (SpecGrammar).          *)

\* A step in which augment() took effect
AugmentTookEffect == ~grammar.is_augmented_ /\ grammar'.is_augmented_

\* C8: augment() on a grammar with start symbol S puts S' -> S at index 0 (the
\* first position), makes S' the start symbol and keeps the productions added
\* before in their order; an augment() call on an augmented grammar changes
\* neither the productions, the symbol table, the start symbol nor the flag.
C8_AugmentPrepends ==
    [][/\ AugmentTookEffect =>
            LET start == grammar.start_symbol_
                new_start == Nonterminal(Append(start.name, "'"))
            IN  /\ start # nullptr
                /\ grammar'.productions_[1] = [lhs |-> new_start, rhs |-> <<start>>]
                /\ Tail(grammar'.productions_) = grammar.productions_
                /\ grammar'.start_symbol_ = new_start
       /\ (Augment /\ grammar.is_augmented_) =>
            /\ grammar'.productions_ = grammar.productions_
            /\ grammar'.symbol_table_ = grammar.symbol_table_
            /\ grammar'.start_symbol_ = grammar.start_symbol_
            /\ grammar'.is_augmented_
      ]_vars

\* An augmented grammar that had two different productions before augment()
C8_Witness ==
    /\ grammar.is_augmented_
    /\ Len(grammar.productions_) = 3
    /\ grammar.productions_[1].lhs = grammar.start_symbol_
    /\ grammar.productions_[2] # grammar.productions_[3]

\* C9: after augment() the new start symbol was not in the symbol table before
\* the call, and it is the left-hand side of exactly one production, whose
\* right-hand side is the old start symbol alone.
C9_FreshStart ==
    [][AugmentTookEffect =>
          /\ grammar'.start_symbol_ \notin get_all_symbols(grammar.symbol_table_)
          /\ is_nonterminal(grammar'.start_symbol_)
          /\ \A p \in productions_for(grammar', grammar'.start_symbol_) :
                p = 1 /\ grammar'.productions_[p].rhs = <<grammar.start_symbol_>>
      ]_vars

\* The value a read returns when computed from scratch over the productions
FromScratch(g, read) ==
    LET fresh == clear_cache(g)
    IN  CASE read.name = "first_set" -> first_set(fresh, read.symbol)
          [] read.name = "follow_set" -> follow_set(fresh, read.symbol)
          [] read.name = "derives_epsilon" -> {derives_epsilon(fresh, read.symbol)}

\* C10: when only productions were added or filled (add_production,
\* add_symbol through the handle) since the caches were cleared, a read of
\* first_set, follow_set or derives_epsilon returns what a from-scratch
\* computation over the current productions gives.
C10_ReadsAreFresh ==
    (op.name \in {"first_set", "follow_set", "derives_epsilon"}
     /\ dirty \subseteq {"add_symbol"}) =>
        op.result = FromScratch(grammar, op)

---------------------------------------------------------------------------
(* The reference the generated tables are compared with: the LALR(1)       *)
(* construction of the textbook, made from the canonical LR(1) collection   *)
(* by merging the states that have the same core.                           *)

\* The right-hand side of production p as a string of grammar symbols: the
\* epsilon symbol stands for the empty string
Word(g, p) == SelectSeq(g.productions_[p].rhs, LAMBDA sym : ~is_epsilon(sym))

Positions(g) == 1..Len(g.productions_)

\* The nonterminals that derive the empty string
RECURSIVE NullableFrom(_, _)
NullableFrom(g, known) ==
    LET more == {g.productions_[p].lhs :
                    p \in {q \in Positions(g) : Range(Word(g, q)) \subseteq known}}
    IN  IF more \subseteq known THEN known ELSE NullableFrom(g, known \cup more)

Nullable(g) == NullableFrom(g, {})

\* The terminals that can start a string derived from word followed by the
\* terminal last
RECURSIVE StartOf(_, _, _, _)
StartOf(first, nullable, word, last) ==
    IF word = <<>> THEN {last}
    ELSE IF ~is_nonterminal(Head(word)) THEN {Head(word)}
    ELSE At(first, Head(word), {})
         \cup (IF Head(word) \in nullable THEN StartOf(first, nullable, Tail(word), last)
               ELSE {})

\* FIRST of every nonterminal, as a least fixed point
RECURSIVE FirstFrom(_, _, _)
FirstFrom(g, nullable, first) ==
    LET more == [n \in get_nonterminals(g.symbol_table_) |->
                    UNION {StartOf(first, nullable, Word(g, p), nullptr) \ {nullptr} :
                           p \in {q \in Positions(g) : g.productions_[q].lhs = n}}]
    IN  IF more = first THEN first ELSE FirstFrom(g, nullable, more)

First(g) == FirstFrom(g, Nullable(g), [n \in get_nonterminals(g.symbol_table_) |-> {}])

\* The symbol after the dot of an LR(1) item, nullptr when the dot is at the end
AfterDot(g, item) ==
    IF item.dot < Len(Word(g, item.production)) THEN Word(g, item.production)[item.dot + 1]
    ELSE nullptr

\* The closure of a set of LR(1) items [production, dot, lookahead]
RECURSIVE LR1Closure(_, _, _, _)
LR1Closure(g, first, nullable, items) ==
    LET more ==
            UNION {LET word == Word(g, item.production)
                       rest == SubSeq(word, item.dot + 2, Len(word))
                   IN  {[production |-> q, dot |-> 0, lookahead |-> t] :
                           q \in {r \in Positions(g) :
                                     g.productions_[r].lhs = AfterDot(g, item)},
                           t \in StartOf(first, nullable, rest, item.lookahead)} :
                   item \in items}
    IN  IF more \subseteq items THEN items
        ELSE LR1Closure(g, first, nullable, items \cup more)

LR1Goto(g, first, nullable, items, symbol) ==
    LR1Closure(g, first, nullable,
               {[item EXCEPT !.dot = @ + 1] :
                   item \in {i \in items : AfterDot(g, i) = symbol}})

\* The canonical collection of sets of LR(1) items
RECURSIVE LR1Collection(_, _, _, _)
LR1Collection(g, first, nullable, states) ==
    LET more == {LR1Goto(g, first, nullable, state, symbol) :
                    state \in states, symbol \in get_all_symbols(g.symbol_table_)} \ {{}}
    IN  IF more \subseteq states THEN states
        ELSE LR1Collection(g, first, nullable, states \cup more)

Core(items) == {[production |-> item.production, dot |-> item.dot] : item \in items}

\* The LALR(1) states: the unions of the canonical states of one core
LALRCollection(g) ==
    LET first == First(g)
        nullable == Nullable(g)
        start == LR1Closure(g, first, nullable,
                            {[production |-> 1, dot |-> 0, lookahead |-> end_of_input_]})
        canonical == LR1Collection(g, first, nullable, {start})
    IN  {UNION {state \in canonical : Core(state) = core} :
            core \in {Core(state) : state \in canonical}}

\* The moves an LALR(1) state has on a terminal: the shift, and the
\* reduction of each production whose item is complete with that lookahead
Moves(g, items, terminal) ==
    {<<"shift">> : item \in {i \in items : AfterDot(g, i) = terminal}}
    \cup {<<"reduce", item.production>> :
             item \in {i \in items : AfterDot(g, i) = nullptr /\ i.lookahead = terminal}}

\* The augmented grammar g is LALR(1): no state has two moves on a terminal
IsLALR1(g) ==
    \A items \in LALRCollection(g) :
        \A terminal \in get_terminals(g.symbol_table_) \cup {end_of_input_} :
            Cardinality(Moves(g, items, terminal)) <= 1

---------------------------------------------------------------------------
(* The reference the parses are compared with: the sentences of a grammar  *)
(* and the yield of a tree.                                                 *)

\* The token kinds of a token sequence
Kinds(tokens) == [i \in 1..Len(tokens) |-> tokens[i].type]

\* word derives the kinds from position i + 1 to position j, given the spans
\* <<nonterminal, i, j>> already known to be derivable
RECURSIVE Spans(_, _, _, _, _)
Spans(derivable, kinds, word, i, j) ==
    IF word = <<>> THEN i = j
    ELSE \E k \in i..j :
            /\ IF is_nonterminal(Head(word)) THEN <<Head(word), i, k>> \in derivable
               ELSE k = i + 1 /\ is_terminal(Head(word)) /\ Head(word).token_type = kinds[k]
            /\ Spans(derivable, kinds, Tail(word), k, j)

RECURSIVE DerivableFrom(_, _, _)
DerivableFrom(g, kinds, derivable) ==
    LET more == {<<g.productions_[p].lhs, i, j>> :
                    p \in Positions(g), i \in 0..Len(kinds), j \in 0..Len(kinds)}
        found == {span \in more \ derivable :
                    /\ span[2] <= span[3]
                    /\ \E p \in Positions(g) :
                          /\ g.productions_[p].lhs = span[1]
                          /\ Spans(derivable, kinds, Word(g, p), span[2], span[3])}
    IN  IF found = {} THEN derivable ELSE DerivableFrom(g, kinds, derivable \cup found)

\* The kinds are those of a sentence of the grammar
IsSentence(g, kinds) ==
    /\ g.start_symbol_ # nullptr
    /\ <<g.start_symbol_, 0, Len(kinds)>> \in DerivableFrom(g, kinds, {})

\* The terminal leaves of a tree in pre-order, each with its lexeme
RECURSIVE Leaves(_)
RECURSIVE LeavesOfAll(_)
Leaves(node) ==
    IF node = NoNode THEN <<>>
    ELSE IF is_terminal(node.symbol) THEN <<[type |-> node.symbol.token_type, value |-> node.value]>>
    ELSE LeavesOfAll(node.children)
LeavesOfAll(nodes) ==
    IF nodes = <<>> THEN <<>> ELSE Leaves(Head(nodes)) \o LeavesOfAll(Tail(nodes))

\* The tokens given to the parser before the end of input, each with its lexeme
Lexemes(tokens) == [i \in 1..Len(tokens) |-> [type |-> tokens[i].type, value |-> tokens[i].value]]

---------------------------------------------------------------------------
(* Claims about table generation and parsing (Spec).                       *)

\* C1: the table generate_table returns for an augmented grammar that is
\* LALR(1) has an empty conflict list.
C1_NoConflictsIfLALR1 ==
    (table # NoTable /\ has_conflicts(table)) => ~IsLALR1(grammar)

\* C4: while augmentation has not taken effect on the grammar, building the
\* generator and calling generate_table end in an error that is reported: the
\* process does not crash, no table exists, and a generate_table call has
\* thrown the error that names the grammar as not augmented.
C4_UnaugmentedIsAnError ==
    ~grammar.is_augmented_ =>
        /\ generator.status # "crashed"
        /\ table = NoTable
        /\ op.name = "generate_table" =>
              op.result = {<<"runtime_error",
                             "Grammar must be augmented before generating LALR(1) table">>}

\* C5: a table has been returned only for a grammar whose validation
\* reports no issue.
C5_TableOnlyIfValid ==
    table # NoTable => is_valid(grammar)

\* C6: when the table has no conflicts and the tokens are a sentence of the
\* grammar, the parse succeeds and the terminal leaves of the tree, left to
\* right, are the tokens.
C6_SentencesParse ==
    (parser.status = "done" /\ ~has_conflicts(table)
       /\ IsSentence(grammar, Kinds(parser.tokens))) =>
        /\ parser.result.success
        /\ Leaves(parser.result.tree) = Lexemes(parser.tokens)

\* C7: when a parse has returned success, the terminal leaves of its tree in
\* pre-order, with their lexemes, are the tokens before the end of input, in
\* order, none dropped and none twice.
C7_RoundTrip ==
    (parser.status = "done" /\ parser.result.success) =>
        Leaves(parser.result.tree) = Lexemes(parser.tokens)

---------------------------------------------------------------------------
(* Claims about FIRST, FOLLOW and the nullable set (SpecSets).             *)

\* C11: derives_epsilon(A) is true exactly when the nonterminal A derives the
\* empty string, and epsilon is in first_set(A) exactly then, whether an
\* epsilon-production has an empty right-hand side or the one symbol epsilon.
C11_NullableAgrees ==
    /\ op.name = "derives_epsilon" => op.result = {op.symbol \in Nullable(grammar)}
    /\ op.name = "first_set" =>
          (epsilon_ \in op.result <=> op.symbol \in Nullable(grammar))

\* A read of first_set that has epsilon in it for a nonterminal whose own
\* productions all have two symbols, in a grammar with a production [epsilon]
C11_Witness ==
    /\ op.name = "first_set"
    /\ epsilon_ \in op.result
    /\ productions_for(grammar, op.symbol) # {}
    /\ \A p \in productions_for(grammar, op.symbol) : Len(grammar.productions_[p].rhs) = 2
    /\ \E p \in Positions(grammar) : grammar.productions_[p].rhs = <<epsilon_>>

\* C12: for every production A -> X1...Xk, what first_set([X1..Xk]) returns is
\* a subset of first_set(A), the epsilon member and the empty sequence
\* included.
C12_RhsFirstWithinLhsFirst ==
    op.name = "first_set(rhs)" => op.result \subseteq first_set(grammar, op.symbol)

\* A read of first_set on a right-hand side of two symbols whose first symbol
\* is a nullable nonterminal and whose second is a terminal the result holds
C12_Witness ==
    /\ op.name = "first_set(rhs)"
    /\ \E p \in productions_for(grammar, op.symbol) :
          LET rhs == grammar.productions_[p].rhs
          IN  /\ Len(rhs) = 2
              /\ is_nonterminal(rhs[1]) /\ rhs[1] \in Nullable(grammar)
              /\ is_terminal(rhs[2]) /\ rhs[2] \in op.result
              /\ op.result = first_set_seq(grammar, rhs)

\* The places <<p, i>> where the nonterminal nt stands in a right-hand side
Occurrences(g, nt) ==
    UNION {{<<p, i>> : i \in {k \in 1..Len(Word(g, p)) : Word(g, p)[k] = nt}} :
           p \in Positions(g)}

\* What the productions put into FOLLOW(nt), given the FOLLOW sets so far: for
\* each A -> alpha nt beta the terminals that can start beta, and FOLLOW(A)
\* when beta derives the empty string
FollowOf(g, first, nullable, follow, nt) ==
    UNION {LET word == Word(g, place[1])
               starts == StartOf(first, nullable,
                                 SubSeq(word, place[2] + 1, Len(word)), nullptr)
           IN  (starts \ {nullptr})
               \cup (IF nullptr \in starts THEN follow[g.productions_[place[1]].lhs]
                     ELSE {}) :
           place \in Occurrences(g, nt)}

\* The least family of FOLLOW sets, with $ in FOLLOW of the start symbol
RECURSIVE LeastFollowFrom(_, _, _, _)
LeastFollowFrom(g, first, nullable, follow) ==
    LET more == [nt \in get_nonterminals(g.symbol_table_) |->
                    follow[nt]
                    \cup (IF nt = g.start_symbol_ THEN {end_of_input_} ELSE {})
                    \cup FollowOf(g, first, nullable, follow, nt)]
    IN  IF more = follow THEN follow ELSE LeastFollowFrom(g, first, nullable, more)

LeastFollow(g) ==
    LeastFollowFrom(g, First(g), Nullable(g),
                    [nt \in get_nonterminals(g.symbol_table_) |-> {}])

\* C13: on a grammar with a start symbol, follow_set returns the set of the
\* least family closed under the FOLLOW rules; $ is in FOLLOW of the start
\* symbol and epsilon is in no FOLLOW set.
C13_FollowIsLeast ==
    (op.name = "follow_set" /\ grammar.start_symbol_ # nullptr) =>
        /\ op.result = LeastFollow(grammar)[op.symbol]
        /\ epsilon_ \notin op.result
        /\ op.symbol = grammar.start_symbol_ => end_of_input_ \in op.result

\* A read of follow_set for a nonterminal, not the start symbol, that stands
\* in one place only, before a different nonterminal that derives the empty
\* string, and gets $ from FOLLOW of the left-hand side
C13_Witness ==
    /\ op.name = "follow_set"
    /\ op.symbol # grammar.start_symbol_
    /\ end_of_input_ \in op.result
    /\ Cardinality(Occurrences(grammar, op.symbol)) = 1
    /\ \E place \in Occurrences(grammar, op.symbol) :
          LET rhs == grammar.productions_[place[1]].rhs
          IN  /\ Len(rhs) = 2 /\ place[2] = 1
              /\ is_nonterminal(rhs[2]) /\ rhs[2] # op.symbol
              /\ rhs[2] \in Nullable(grammar)

---------------------------------------------------------------------------
(* Claims about the automaton, the table and the driver (Spec).            *)

\* The automaton and the table a first build gives for grammar g when the
\* addresses of its objects are ordered as in h
Build(g, h) ==
    LET gen == generate_table(LALR1Generator(g, h), g, h)
    IN  [automaton |-> gen.lr0_automaton_, table |-> TableOf(gen, g, h)]

\* The generator has built its states once
BuiltOnce == Len(generator.states_) = Len(generator.lr0_automaton_.states_)

\* C14: building the automaton and the table again for the same grammar gives
\* the same state numbering and the same action and goto maps, the action
\* kept in a conflicting cell included, however the addresses of the symbols
\* and productions are ordered.
C14_SameBuildOnAnyHeap ==
    (table # NoTable /\ BuiltOnce) =>
        \A h \in Heaps :
            Build(grammar, h) = [automaton |-> generator.lr0_automaton_, table |-> table]

\* The ids of the states that transitions lead to from the states ids
Successors(aut, ids) ==
    {aut.transitions_[key] : key \in {k \in DOMAIN aut.transitions_ : k[1] \in ids}}

\* The ids of the states at most d transitions away from state 0
RECURSIVE Within(_, _)
Within(aut, d) ==
    IF d = 0 THEN {0}
    ELSE Within(aut, d - 1) \cup Successors(aut, Within(aut, d - 1))

\* The number of transitions on a shortest path from state 0 to the state
Distance(aut, state) ==
    CHOOSE d \in 0..Len(aut.states_) :
        /\ state \in Within(aut, d)
        /\ d = 0 \/ state \notin Within(aut, d - 1)

\* C15: in the LR(0) automaton a state d transitions away from state 0 has a
\* smaller id than every state d + 1 transitions away.
C15_BreadthFirstIds ==
    generator.status = "constructed" =>
        LET aut == generator.lr0_automaton_
            ids == 0..(Len(aut.states_) - 1)
        IN  \A near \in ids : \A far \in ids :
                Distance(aut, far) = Distance(aut, near) + 1 => near < far

\* The cells of the action table that hold Accept
AcceptCells(t) == {key \in DOMAIN t.action_table_ : is_accept(t.action_table_[key])}

\* The start symbol the grammar had before augment()
UserStart(g) == g.productions_[1].rhs[1]

\* C16: the table built from an augmented grammar with user start symbol S
\* holds Accept in exactly one cell, that of state goto(0, S) and $.
C16_OneAcceptCell ==
    (table # NoTable /\ BuiltOnce) =>
        AcceptCells(table) =
            {<<get_goto(table, 0, UserStart(grammar)), end_of_input_>>}

---------------------------------------------------------------------------
(* Claims about the driver on any table (SpecDriver).                      *)

\* The action the driver finds for the top state and the current token
CurrentAction ==
    get_action(table, parser.stack[Len(parser.stack)].state,
               TerminalOf(grammar, heap, next_token(parser.tokens, parser.pos)))

\* The driver is about to reduce by a production with k symbols on the right
Reducing(k) ==
    /\ parser.status = "running"
    /\ TerminalOf(grammar, heap, next_token(parser.tokens, parser.pos)) # nullptr
    /\ is_reduce(CurrentAction)
    /\ Len(grammar.productions_[CurrentAction.value + 1].rhs) = k

\* C17: a reduction by a production with k symbols on the right fails with
\* the stack-underflow error when the stack holds fewer than k + 1 frames,
\* and otherwise takes exactly the k top frames off: the initial frame stays.
C17_ReducePopsAboveInitialFrame ==
    [][\A k \in 0..MaxSetRhs :
          (Reducing(k) /\ parser' # parser) =>
              IF Len(parser.stack) < k + 1
              THEN /\ parser'.status = "done"
                   /\ parser'.result.error_message = <<"Stack underflow during reduction">>
              ELSE parser'.status = "running" =>
                      /\ Len(parser'.stack) = Len(parser.stack) - k + 1
                      /\ SubSeq(parser'.stack, 1, Len(parser.stack) - k) =
                            SubSeq(parser.stack, 1, Len(parser.stack) - k)
      ]_vars

---------------------------------------------------------------------------
(* Claims about epsilon-productions in the driver (Spec).                  *)

\* The production's right-hand side is empty or the one symbol epsilon
StoredAsEpsilon(production) ==
    production.rhs = <<>> \/ is_epsilon_production(production)

\* C18: a reduction by an epsilon-production, stored with an empty
\* right-hand side or as [epsilon], leaves every frame on the stack and
\* pushes one frame for the left-hand side; and with a table without
\* conflicts for a grammar that has an epsilon-production in either form,
\* every sentence of the grammar parses.
C18_EpsilonReducePopsNothing ==
    /\ [][(/\ parser.status = "running"
           /\ TerminalOf(grammar, heap, next_token(parser.tokens, parser.pos)) # nullptr
           /\ is_reduce(CurrentAction)
           /\ StoredAsEpsilon(grammar.productions_[CurrentAction.value + 1])
           /\ parser' # parser) =>
              /\ parser'.status = "running"
              /\ Len(parser'.stack) = Len(parser.stack) + 1
              /\ SubSeq(parser'.stack, 1, Len(parser.stack)) = parser.stack
              /\ parser'.stack[Len(parser'.stack)].symbol =
                    grammar.productions_[CurrentAction.value + 1].lhs
        ]_vars
    /\ []((/\ parser.status = "done"
           /\ ~has_conflicts(table)
           /\ \E p \in 1..Len(grammar.productions_) :
                 StoredAsEpsilon(grammar.productions_[p])
           /\ IsSentence(grammar, Kinds(parser.tokens))) =>
              parser.result.success)

---------------------------------------------------------------------------
(* Claims about the end of a parse (Spec).                                 *)

\* The stack is the initial frame and one frame for the user start symbol
StartFrameOnly(stack, g) ==
    /\ Len(stack) = 2
    /\ stack[1].symbol = nullptr
    /\ stack[2].symbol = UserStart(g)

\* C19: when the parse has ended on an Accept action, it has returned
\* success exactly when the stack was the initial frame and one frame for
\* the user start symbol S; the root returned is that frame's node, labelled
\* S; on any other stack the parse has failed with the invalid-accept error.
C19_AcceptOnlyOnStartFrame ==
    (/\ parser.status = "done"
     /\ TerminalOf(grammar, heap, next_token(parser.tokens, parser.pos)) # nullptr
     /\ is_accept(CurrentAction)) =>
        IF StartFrameOnly(parser.stack, grammar)
        THEN /\ parser.result.success
             /\ parser.result.tree = parser.stack[2].node
             /\ parser.result.tree.symbol = UserStart(grammar)
        ELSE /\ ~parser.result.success
             /\ parser.result.error_message = <<"Invalid stack state at accept">>

---------------------------------------------------------------------------
(* Claims about the error report (SpecFactory).                            *)

\* The terminals, $ among them, whose action in the state is not Error
ExpectedIn(state) ==
    {terminal \in get_terminals(grammar.symbol_table_) \cup {end_of_input_} :
        ~is_error(get_action(table, state, terminal))}

\* The names an error message lists as expected
ReportedExpected(error) == IF Len(error) = 4 THEN Range(error[4]) ELSE {}

\* C20: when the parse is at a token whose terminal has the action Error in
\* the top state, the parse ends there with a failure that carries the line
\* and column of that token, its lexeme, and as expected set exactly the
\* terminals ($ among them) whose action in the top state is not Error; for
\* E -> E + T | T; T -> T * F | F; F -> ( E ) | num and the tokens num +
\* the failure is at the end-of-input token and num and ( are expected.
C20_ErrorReport ==
    /\ (/\ parser.status \in {"done", "crashed"}
        /\ TerminalOf(grammar, heap, next_token(parser.tokens, parser.pos)) # nullptr
        /\ is_error(CurrentAction)) =>
           /\ parser.status = "done"
           /\ ~parser.result.success
           /\ parser.result.error_line = next_token(parser.tokens, parser.pos).line
           /\ parser.result.error_column = next_token(parser.tokens, parser.pos).column
           /\ Len(parser.result.error_message) >= 2
           /\ parser.result.error_message[2] = next_token(parser.tokens, parser.pos).value
           /\ ReportedExpected(parser.result.error_message) =
                 {terminal.name : terminal \in ExpectedIn(parser.stack[Len(parser.stack)].state)}
    /\ (/\ parser.status \in {"done", "crashed"}
        /\ grammar = ParenExpressionGrammar
        /\ Kinds(parser.tokens) = <<"NUMBER", "PLUS">>) =>
           /\ parser.status = "done"
           /\ ~parser.result.success
           /\ parser.pos = 3
           /\ parser.result.error_column = 3
           /\ {num.name, lparen.name} \subseteq ReportedExpected(parser.result.error_message)

---------------------------------------------------------------------------
(* Claims about unknown tokens (SpecFactory).                              *)

\* The token the driver is at
CurrentToken == next_token(parser.tokens, parser.pos)

\* No terminal of the grammar has the kind of the token the driver is at
NoTerminalForToken ==
    /\ ~is_eof(CurrentToken)
    /\ \A terminal \in get_terminals(grammar.symbol_table_) :
          terminal.token_type # CurrentToken.type

\* C21: a driver step at a token that is not the end of input and whose kind
\* no terminal of the grammar has ends the parse with the unknown-token
\* failure carrying the token's line and column, the stack left as it was;
\* a step at the end-of-input token never reports an unknown token.
C21_UnknownTokenFails ==
    [][(parser.status = "running" /\ parser' # parser) =>
          /\ NoTerminalForToken =>
                /\ parser'.status = "done"
                /\ ~parser'.result.success
                /\ parser'.result.error_message = <<"Unknown token: ", CurrentToken.value>>
                /\ parser'.result.error_line = CurrentToken.line
                /\ parser'.result.error_column = CurrentToken.column
                /\ parser'.stack = parser.stack
                /\ parser'.pos = parser.pos
          /\ is_eof(CurrentToken) =>
                /\ parser'.status \in {"running", "done"}
                /\ parser'.result.error_message = <<>> \/
                      parser'.result.error_message[1] # "Unknown token: "
      ]_vars

---------------------------------------------------------------------------
(* Claims about how failures are reported (Spec).                          *)

\* C22: no call ends in an exception: generate_table has returned a table
\* (with its conflict list) whatever the grammar, create_lalr1_parser has
\* returned a parser, and a parse that has ended has returned a ParseResult.
C22_FailuresAreReturned ==
    /\ op.name = "generate_table" => (op.result = {<<"table">>} /\ table # NoTable)
    /\ op.name = "create_lalr1_parser" => (op.result = {<<"parser">>} /\ table # NoTable)
    /\ parser.status \in {"none", "running", "done"}

---------------------------------------------------------------------------
(* Claims about calls of parse that run at once (SpecShared).              *)

\* C23: when calls of parse on one table and grammar run with their steps
\* interleaved in any order, no step changes the table or the grammar, a
\* step of one call leaves the stack, position and result of the other as
\* they were, and each call that has returned has the result it has when it
\* runs alone.
C23_ParsesDoNotInterfere ==
    /\ [][/\ table' = table
          /\ grammar' = grammar
          /\ (parses # <<>> /\ parses' # parses) =>
                \E i \in 1..2 : parses'[3 - i] = parses[3 - i]
        ]_vars
    /\ [](\A i \in DOMAIN parses :
             parses[i].status = "done" =>
                parses[i].result =
                   parse_internal(StartOfParse(parses[i].tokens), grammar, heap, table).result)

\* C23 witness: the first call has returned a tree while the second call,
\* on other tokens, is in the middle of its parse
C23_Witness ==
    /\ parses # <<>>
    /\ parses[1].status = "done"
    /\ parses[1].result.success
    /\ parses[2].status = "running"
    /\ Len(parses[2].stack) > 2
    /\ parses[2].tokens # parses[1].tokens

---------------------------------------------------------------------------
(* Claims about the end of the driver loop (SpecLoop).                     *)

---------------------------------------------------------------------------
(* Claims about the grammar with F -> F ^ F (SpecPower).                   *)

\* The position of F -> F ^ F in the productions of the grammar, 0 if absent
PowerProduction ==
    LET at == {p \in 1..Len(grammar.productions_) :
                  grammar.productions_[p] = [lhs |-> F, rhs |-> <<F, power, F>>]}
    IN  IF at = {} THEN 0 ELSE CHOOSE p \in at : TRUE

\* The conflict is between a Shift and the Reduce by F -> F ^ F, on ^, in a
\* state that holds the complete item F -> F ^ F .
ShiftReduceOnPower(conflict) ==
    /\ conflict.terminal = power.name
    /\ \E shift \in {conflict.existing, conflict.new} : shift[1] = "s"
    /\ \E reduce \in {conflict.existing, conflict.new} :
          reduce = <<"r", PowerProduction - 1>>
    /\ LR0Item(PowerProduction, 3) \in
          generator.lr0_automaton_.states_[conflict.state + 1].items_

\* C25: for the expression grammar with F -> F ^ F, augmented, generate_table
\* returns a table; the table has conflicts, one of them between a Shift and
\* a Reduce on ^ in the state that holds the complete item F -> F ^ F .
C25_PowerConflict ==
    /\ (op.name = "generate_table" /\ grammar.is_augmented_) =>
          (op.result = {<<"table">>} /\ table # NoTable)
    /\ table # NoTable =>
          /\ has_conflicts(table)
          /\ \E i \in 1..Len(get_conflicts(table)) :
                ShiftReduceOnPower(get_conflicts(table)[i])

\* C25 witness: generate_table has returned the table of the grammar with
\* F -> F ^ F, with a conflict on ^
C25_Witness ==
    /\ op.name = "generate_table"
    /\ table # NoTable
    /\ PowerProduction > 0
    /\ \E i \in 1..Len(get_conflicts(table)) :
          get_conflicts(table)[i].terminal = power.name

---------------------------------------------------------------------------
(* Claims about the calculator parser (SpecFactory).                       *)

\* C26: for the grammar of create_calculator_parser, create_lalr1_parser
\* returns a parser, and a parse on that parser returns success for the
\* token sequences that are expressions of the grammar (num + num, ...) and
\* failure for the others (num +, + num, num num, ...).
C26_CalculatorParser ==
    grammar = CalculatorGrammar =>
        /\ op.name = "create_lalr1_parser" => (op.result = {<<"parser">>} /\ table # NoTable)
        /\ parser.status \in {"done", "crashed"} =>
              /\ parser.status = "done"
              /\ parser.result.success <=> IsSentence(grammar, Kinds(parser.tokens))

---------------------------------------------------------------------------
(* Claims about the table of the README (Spec).                            *)

\* The cells of "Generated LALR(1) Table" in the README
ReadmeAction(state, terminal) ==
    IF state = 0 /\ terminal = num THEN Shift(3)
    ELSE IF state = 1 /\ terminal = end_of_input_ THEN Accept
    ELSE IF state = 1 /\ terminal = plus THEN Shift(4)
    ELSE IF state = 2 /\ terminal \in {end_of_input_, plus} THEN Reduce(2)
    ELSE IF state = 3 /\ terminal \in {end_of_input_, plus} THEN Reduce(3)
    ELSE IF state = 4 /\ terminal = num THEN Shift(3)
    ELSE IF state = 5 /\ terminal \in {end_of_input_, plus} THEN Reduce(1)
    ELSE Error

ReadmeGoto(state, nonterminal) ==
    IF state = 0 /\ nonterminal = E THEN 1
    ELSE IF state = 0 /\ nonterminal = T THEN 2
    ELSE IF state = 4 /\ nonterminal = T THEN 5
    ELSE -1

\* The table has six states, no conflict and the cells of the README
IsReadmeTable(t) ==
    /\ t.num_states_ = 6
    /\ ~has_conflicts(t)
    /\ \A state \in 0..5 :
          /\ \A terminal \in {end_of_input_, plus, num} :
                get_action(t, state, terminal) = ReadmeAction(state, terminal)
          /\ \A nonterminal \in {E, T} :
                get_goto(t, state, nonterminal) = ReadmeGoto(state, nonterminal)

\* C27: the table generate_table builds for E -> E + T | T, T -> num,
\* augmented with E' -> E, has no conflict and exactly the six states and the
\* cells printed in the README.
C27_ReadmeTable ==
    (/\ grammar.productions_ = augment(ExpressionGrammar).productions_
     /\ table # NoTable /\ BuiltOnce) => IsReadmeTable(table)

\* The table of the README is built when the nonterminals lie below the
\* terminals in memory
C27_ReadmeTableBuilt ==
    /\ grammar.productions_ = augment(ExpressionGrammar).productions_
    /\ table # NoTable /\ BuiltOnce
    /\ IsReadmeTable(table)

---------------------------------------------------------------------------
(* Claims about validation (SpecGrammar).                                  *)

\* The nonterminals that stand on a right-hand side and have no production
UndefinedNonterminals(g) ==
    {s \in get_nonterminals(g.symbol_table_) :
        /\ \E p \in 1..Len(g.productions_) :
              \E i \in 1..Len(g.productions_[p].rhs) : g.productions_[p].rhs[i] = s
        /\ \A p \in 1..Len(g.productions_) : g.productions_[p].lhs # s}

\* C28: get_validation_errors() returns no issue, and is_valid() true, exactly
\* when the start symbol is set, there is a production and every nonterminal
\* on a right-hand side has a production; a missing start symbol, an empty
\* production list and each undefined nonterminal contribute an issue each.
C28_ValidationErrors ==
    op.name = "get_validation_errors" =>
        /\ op.result = {} <=>
              /\ grammar.start_symbol_ # nullptr
              /\ grammar.productions_ # <<>>
              /\ UndefinedNonterminals(grammar) = {}
        /\ is_valid(grammar) <=> op.result = {}
        /\ grammar.start_symbol_ = nullptr <=> <<"No start symbol defined">> \in op.result
        /\ grammar.productions_ = <<>> <=> <<"No productions defined">> \in op.result
        /\ \A s \in get_nonterminals(grammar.symbol_table_) :
              s \in UndefinedNonterminals(grammar)
                  <=> <<"Undefined nonterminal: ", s.name>> \in op.result
        /\ Cardinality(op.result) =
              (IF grammar.start_symbol_ = nullptr THEN 1 ELSE 0)
              + (IF grammar.productions_ = <<>> THEN 1 ELSE 0)
              + Cardinality(UndefinedNonterminals(grammar))

\* get_validation_errors() on a grammar with a start symbol and productions
\* whose only issue is a nonterminal without a production
C28_Witness ==
    /\ op.name = "get_validation_errors"
    /\ grammar.start_symbol_ # nullptr
    /\ grammar.productions_ # <<>>
    /\ Cardinality(op.result) = 1
    /\ UndefinedNonterminals(grammar) # {}

---------------------------------------------------------------------------
(* Claims about the LR(0) automaton (Spec).                                *)

\* The symbol that follows the dot of an LR(0) item is X
DotBefore(g, item, X) ==
    /\ item.dot_position < Len(g.productions_[item.production].rhs)
    /\ g.productions_[item.production].rhs[item.dot_position + 1] = X

\* The nonterminals whose productions the closure of the items must hold:
\* those after a dot, and those that begin a production of one of them
RECURSIVE Opened(_, _)
Opened(g, known) ==
    LET more == {X \in get_nonterminals(g.symbol_table_) :
                    \E p \in Positions(g) :
                        /\ g.productions_[p].lhs \in known
                        /\ DotBefore(g, [production |-> p, dot_position |-> 0], X)}
    IN  IF more \subseteq known THEN known ELSE Opened(g, known \cup more)

\* The closure of a set of LR(0) items
ClosureOf(g, items) ==
    LET after == {X \in get_nonterminals(g.symbol_table_) :
                     \E item \in items : DotBefore(g, item, X)}
    IN  items \cup {[production |-> p, dot_position |-> 0] :
                       p \in {q \in Positions(g) : g.productions_[q].lhs \in Opened(g, after)}}

\* Goto(I, X): the closure of the items of I with the dot moved over X
GotoOf(g, items, X) ==
    ClosureOf(g, {[production |-> item.production, dot_position |-> item.dot_position + 1] :
                     item \in {it \in items : DotBefore(g, it, X)}})

\* A generator was constructed on a grammar that has a production 0
AutomatonFinished == generator.status = "constructed" /\ grammar.productions_ # <<>>

\* C29: in the finished LR(0) automaton no two states have the same item set,
\* the state at position i has id i, for i = 0..n-1, and state 0 is the
\* closure of the item (production 0, dot 0).
C29_StatesDistinctAndNumbered ==
    AutomatonFinished =>
        LET states == generator.lr0_automaton_.states_
        IN  /\ states # <<>>
            /\ \A i \in 1..Len(states) : \A j \in 1..Len(states) :
                  states[i].items_ = states[j].items_ => i = j
            /\ \A i \in 1..Len(states) : states[i].id = i - 1
            /\ states[1].items_ = ClosureOf(grammar, {[production |-> 1, dot_position |-> 0]})

\* An automaton with two states that share an item, and whose state 0 has
\* items the closure added in a second round of its loop
C29_Witness ==
    /\ AutomatonFinished
    /\ LET states == generator.lr0_automaton_.states_
       IN  /\ \E i \in 1..Len(states) : \E j \in 1..Len(states) :
                 i # j /\ states[i].items_ \cap states[j].items_ # {}
           /\ states[1].items_ #
                 closure_single_pass({[production |-> 1, dot_position |-> 0]}, grammar)

\* C30: in the finished LR(0) automaton every state is reached from state 0
\* through the transitions; the transition from a state on a symbol is defined
\* exactly when the symbol follows a dot in an item of the state, and then it
\* leads to an existing state whose item set is Goto of the state and symbol.
C30_TransitionsAreGoto ==
    AutomatonFinished =>
        LET aut == generator.lr0_automaton_
            ids == 0..(Len(aut.states_) - 1)
            symbols == get_all_symbols(grammar.symbol_table_) \cup {epsilon_, end_of_input_}
        IN  /\ Within(aut, Len(aut.states_)) = ids
            /\ \A key \in DOMAIN aut.transitions_ : key[1] \in ids /\ key[2] \in symbols
            /\ \A from \in ids : \A X \in symbols :
                  LET items == aut.states_[from + 1].items_
                      follows == \E item \in items : DotBefore(grammar, item, X)
                  IN  /\ (<<from, X>> \in DOMAIN aut.transitions_) <=> follows
                      /\ follows =>
                            /\ aut.transitions_[<<from, X>>] \in ids
                            /\ aut.states_[aut.transitions_[<<from, X>>] + 1].items_
                                  = GotoOf(grammar, items, X)

\* An automaton with a transition into a state that was there before (a
\* state with two transitions into it) and a state three transitions away
\* from state 0
C30_Witness ==
    /\ AutomatonFinished
    /\ LET aut == generator.lr0_automaton_
       IN  /\ \E k1 \in DOMAIN aut.transitions_ : \E k2 \in DOMAIN aut.transitions_ :
                 k1 # k2 /\ aut.transitions_[k1] = aut.transitions_[k2]
           /\ Within(aut, 2) # Within(aut, 3)

---------------------------------------------------------------------------
(* Claims about closure and goto_set (SpecItems).                          *)

\* The item set and the symbol the last call was given
CalledItems == calls[1].items
CalledSymbol == calls[1].symbol

\* Every item of C with a nonterminal B after the dot has brought in the
\* item (B -> gamma, dot 0) of every production of B
IsClosed(g, C) ==
    \A item \in C : \A p \in Positions(g) :
        (/\ is_nonterminal(g.productions_[p].lhs)
         /\ DotBefore(g, item, g.productions_[p].lhs))
            => [production |-> p, dot_position |-> 0] \in C

\* C31: closure(I) is the least superset of I in which every item with a
\* nonterminal B after the dot has brought in (B -> gamma, dot 0) for every
\* production of B, and closure(closure(I)) = closure(I).
C31_ClosureIsLeastAndIdempotent ==
    op.name = "closure" =>
        /\ CalledItems \subseteq op.result
        /\ IsClosed(grammar, op.result)
        /\ \A C \in SUBSET AllItems(grammar) :
              (CalledItems \subseteq C /\ IsClosed(grammar, C)) => op.result \subseteq C
        /\ closure(op.result, grammar) = op.result

\* A closure that needed a second round: it holds an item that the items
\* given do not bring in themselves
C31_Witness ==
    /\ op.name = "closure"
    /\ op.result # closure_single_pass(CalledItems, grammar)

\* C32: for every item set I and symbol X, goto_set(closure(I), X) equals
\* closure(goto_set(I, X)).
C32_GotoCommutesWithClosure ==
    op.name = "goto_set" =>
        goto_set(closure(CalledItems, grammar), CalledSymbol, grammar)
            = closure(op.result, grammar)

\* C32 as the code has it: goto_set(I, X) is closed, so closure leaves it as
\* it is; it is contained in goto_set(closure(I), X), and equal to it when I
\* is closed.  The items that closure(I) adds to I can have X after the dot,
\* and then goto_set(closure(I), X) holds items that goto_set(I, X) lacks.
C32_GotoOfClosureContains ==
    op.name = "goto_set" =>
        LET of_closure == goto_set(closure(CalledItems, grammar), CalledSymbol, grammar)
        IN  /\ closure(op.result, grammar) = op.result
            /\ op.result = GotoOf(grammar, CalledItems, CalledSymbol)
            /\ op.result \subseteq of_closure
            /\ CalledItems = closure(CalledItems, grammar) => op.result = of_closure

\* goto_set on a closed set of two items, one brought in by the other, with a
\* result that holds an item the closure added to the advanced items
C32_Witness ==
    /\ op.name = "goto_set"
    /\ Cardinality(CalledItems) = 2
    /\ CalledItems = closure(CalledItems, grammar)
    /\ \E item \in CalledItems : closure({item}, grammar) = CalledItems
    /\ op.result # goto_set_without_closure(CalledItems, CalledSymbol, grammar)

---------------------------------------------------------------------------
(* Claims about the cells of a built table (Spec).                         *)

\* C33: in a built table goto[s, B] is defined exactly when the LR(0)
\* transition (s, B) is, and then with the same target, for every state s
\* and nonterminal B, also when FIRST of a nonterminal is empty.
C33_GotoIsTransition ==
    (table # NoTable /\ BuiltOnce) =>
        \A s \in 0..(table.num_states_ - 1) :
            \A nonterminal \in get_nonterminals(grammar.symbol_table_) :
                get_goto(table, s, nonterminal)
                    = get_transition(generator.lr0_automaton_, s, nonterminal)

\* A conflict was recorded for the cell
ConflictRecorded(t, state, terminal) ==
    \E k \in 1..Len(t.conflicts_) :
        t.conflicts_[k].state = state /\ t.conflicts_[k].terminal = terminal.name

\* C34: in a built table Shift(t) at (s, a) has an item of s with the terminal
\* a after the dot and the LR(0) transition (s, a) = t; Reduce(i) at (s, a)
\* has 1 <= i < number of productions, the complete item of production i in
\* s and a in FOLLOW(lhs(i)); no cell reduces by production 0; and every
\* terminal after a dot in s has a Shift or a recorded conflict in its cell.
C34_CellsAreJustified ==
    (table # NoTable /\ BuiltOnce) =>
        \A s \in 0..(table.num_states_ - 1) :
            LET items == generator.lr0_automaton_.states_[s + 1].items_
            IN  \A terminal \in table.terminals_ :
                    LET cell == get_action(table, s, terminal)
                    IN  /\ is_shift(cell) =>
                              /\ \E item \in items : DotBefore(grammar, item, terminal)
                              /\ get_transition(generator.lr0_automaton_, s, terminal)
                                    = cell.value
                        /\ is_reduce(cell) =>
                              /\ 1 <= cell.value /\ cell.value < Len(grammar.productions_)
                              /\ [production |-> cell.value + 1,
                                  dot_position |->
                                      Len(grammar.productions_[cell.value + 1].rhs)] \in items
                              /\ terminal \in
                                    LeastFollow(grammar)[grammar.productions_[cell.value + 1].lhs]
                        /\ (/\ is_terminal(terminal)
                            /\ \E item \in items : DotBefore(grammar, item, terminal))
                              => is_shift(cell) \/ ConflictRecorded(table, s, terminal)

\* A built table with a cell where a terminal stands after a dot and the
\* action kept is a Reduce, the conflict recorded, and a cell with a Shift
C34_Witness ==
    /\ table # NoTable /\ BuiltOnce
    /\ \E s \in 0..(table.num_states_ - 1) : \E terminal \in table.terminals_ :
          /\ is_reduce(get_action(table, s, terminal))
          /\ \E item \in generator.lr0_automaton_.states_[s + 1].items_ :
                DotBefore(grammar, item, terminal)
          /\ ConflictRecorded(table, s, terminal)
    /\ \E s \in 0..(table.num_states_ - 1) : \E terminal \in table.terminals_ :
          is_shift(get_action(table, s, terminal))

---------------------------------------------------------------------------
(* Claims about the driver on a generated table (Spec).                    *)

\* C35: on a table built by generate_table and the augmented grammar it was
\* built from, the stack is never empty, its bottom frame is the initial
\* frame with state 0, a Reduce by a production with k symbols on the right
\* finds k frames above the initial frame and a goto for the left-hand side,
\* and no parse fails with stack underflow or a missing goto.
C35_NoUnderflowNoMissingGoto ==
    parser.status \in {"running", "done"} =>
        /\ parser.stack # <<>>
        /\ parser.stack[1] = StartOfParse(parser.tokens).stack[1]
        /\ parser.stack[1].state = 0
        /\ \A k \in 0..MaxStack :
              Reducing(k) =>
                  /\ Len(parser.stack) >= k + 1
                  /\ get_goto(table, parser.stack[Len(parser.stack) - k].state,
                              grammar.productions_[CurrentAction.value + 1].lhs) >= 0
        /\ parser.result.error_message # <<"Stack underflow during reduction">>
        /\ parser.result.error_message # <<>> =>
              parser.result.error_message[1] # "No goto entry for state "

\* The driver is about to reduce by a production with three symbols on the
\* right, on a stack of four frames or more
C35_Witness ==
    /\ Reducing(3)
    /\ Len(parser.stack) >= 4

---------------------------------------------------------------------------
(* Claims about what a parser of create_lalr1_parser accepts (SpecFactory). *)

\* C36: on a parser returned by create_lalr1_parser, a parse that returns a
\* tree has read token kinds that form a string derivable from the start
\* symbol of the user's grammar.
C36_SuccessOnlyOnSentences ==
    (parser.status = "done" /\ parser.result.success) =>
        IsSentence(grammar, Kinds(parser.tokens))

---------------------------------------------------------------------------
(* Claims about the tree of a successful parse (Spec).                     *)

\* The labels of the children of a node, left to right
ChildLabels(node) == [i \in 1..Len(node.children) |-> node.children[i].symbol]

\* A terminal node is a leaf with the lexeme of a token of its kind; a
\* nonterminal node has no lexeme and the right-hand side of one of its
\* productions as the labels of its children, which are well formed too
RECURSIVE WellFormed(_, _, _)
WellFormed(g, tokens, node) ==
    IF is_terminal(node.symbol)
    THEN /\ node.children = <<>>
         /\ \E i \in 1..Len(tokens) :
               tokens[i].type = node.symbol.token_type /\ tokens[i].value = node.value
    ELSE /\ is_nonterminal(node.symbol)
         /\ node.value = <<>>
         /\ \E p \in Positions(g) :
               g.productions_[p].lhs = node.symbol /\ g.productions_[p].rhs = ChildLabels(node)
         /\ \A i \in 1..Len(node.children) : WellFormed(g, tokens, node.children[i])

---------------------------------------------------------------------------
(* Claims about calling generate_table again (Spec).                       *)

\* C38: a second call of generate_table on the same generator leaves the
\* list of LALR states as it was, in length and content, and returns a table
\* with the same number of states, the same action and goto cells and the
\* same conflict list as the first call.
C38_GenerateTableIsRepeatable ==
    [][(table # NoTable /\ op'.name = "generate_table")
          => (generator'.states_ = generator.states_ /\ table' = table)]_vars

---------------------------------------------------------------------------
(* Claims about the grammar a parser of create_lalr1_parser reads           *)
(* (SpecFactory).                                                           *)

\* C39: every step of a parse on a parser returned by create_lalr1_parser
\* reads a grammar that is alive, so it does what the step does on the
\* augmented copy the table was built from and the process is never lost; the
\* caller's grammar stays as it was, not augmented.
C39_GrammarIsAlive ==
    [][/\ grammar' = grammar /\ ~grammar.is_augmented_
       /\ (parser.status = "running" /\ parser' # parser) =>
              parser' = parse_step(parser, augment(grammar), heap, table)]_vars

---------------------------------------------------------------------------
(* Claims about the termination of the loops (SpecPasses).                 *)

\* The pairs (symbol, member) of a map from symbols to sets
PairsOf(map) == UNION {{<<sym, x>> : x \in map[sym]} : sym \in DOMAIN map}

\* The symbols a set of the grammar can hold
SymbolBound(g) == get_all_symbols(g.symbol_table_) \cup {epsilon_, end_of_input_}

\* The item sets of the states at the positions
ItemSetsAt(states, positions) == {states[i].items_ : i \in positions}

\* C40: the loops end.  A pass of the nullable, FIRST or FOLLOW loop that
\* does not end its loop has added an element to sets that hold symbols of
\* the grammar only; the work queue receives only states whose item set no
\* earlier state has; and the constructions reach their end.
C40_LoopsTerminate ==
    /\ [][/\ (op.name = "compute_epsilon_derivers" /\ op'.name = op.name) =>
                /\ \A sym \in DOMAIN grammar.epsilon_derivers_ :
                      grammar.epsilon_derivers_[sym] => grammar'.epsilon_derivers_[sym]
                /\ \E sym \in DOMAIN grammar.epsilon_derivers_ :
                      ~grammar.epsilon_derivers_[sym] /\ grammar'.epsilon_derivers_[sym]
                /\ DOMAIN grammar'.epsilon_derivers_ \subseteq SymbolBound(grammar)
          /\ (op.name = "compute_first_sets" /\ op'.name = op.name) =>
                /\ PairsOf(grammar.first_sets_) \subseteq PairsOf(grammar'.first_sets_)
                /\ PairsOf(grammar.first_sets_) # PairsOf(grammar'.first_sets_)
                /\ PairsOf(grammar'.first_sets_)
                      \subseteq SymbolBound(grammar) \X SymbolBound(grammar)
          /\ (op.name = "compute_follow_sets" /\ op'.name = op.name) =>
                /\ PairsOf(grammar.follow_sets_) \subseteq PairsOf(grammar'.follow_sets_)
                /\ PairsOf(grammar.follow_sets_) # PairsOf(grammar'.follow_sets_)
                /\ PairsOf(grammar'.follow_sets_)
                      \subseteq SymbolBound(grammar) \X SymbolBound(grammar)
          /\ op.name = "LR0Automaton" =>
                LET before == generator.lr0_automaton_
                    after == generator'.lr0_automaton_
                    old == 1..Len(before.states_)
                    new == (Len(before.states_) + 1)..Len(after.states_)
                IN  /\ SubSeq(after.states_, 1, Len(before.states_)) = before.states_
                    /\ ItemSetsAt(after.states_, new) \cap ItemSetsAt(after.states_, old) = {}
                    /\ Cardinality(ItemSetsAt(after.states_, new)) = Cardinality(new)
                    /\ after.work_queue =
                          SubSeq(before.work_queue, 1, Len(before.work_queue) - 1)
                          \o [k \in 1..Cardinality(new) |-> Len(before.states_) + k - 1]
                    /\ ItemSetsAt(after.states_, old \cup new) \subseteq SUBSET AllItems(grammar)
         ]_vars
    /\ <>(op.name = "done")

\* The four loops have ended after they had work to do: an automaton of
\* four states or more, a nonterminal that derives epsilon, a terminal in
\* the FIRST set of a nonterminal and a terminal in a FOLLOW set
C40_Witness ==
    /\ op.name = "done"
    /\ Len(generator.lr0_automaton_.states_) >= 4
    /\ \E sym \in DOMAIN grammar.epsilon_derivers_ :
          is_nonterminal(sym) /\ grammar.epsilon_derivers_[sym]
    /\ \E sym \in DOMAIN grammar.first_sets_ :
          is_nonterminal(sym) /\ \E x \in grammar.first_sets_[sym] : is_terminal(x)
    /\ \E sym \in DOMAIN grammar.follow_sets_ :
          \E x \in grammar.follow_sets_[sym] : is_terminal(x)

=============================================================================
